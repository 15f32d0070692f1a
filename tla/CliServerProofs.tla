-------------------------- MODULE CliServerProofs --------------------------
(***************************************************************************)
(* What holds of the server of the command line for any commands, lines,   *)
(* connections and sockets: that nobody has access who has not earned it,  *)
(* and who has gets it; that no session gets on the connection of another  *)
(* if connections do not come while a thread reads its arguments; that a   *)
(* name that is shortened means one command, a line the command that runs, *)
(* and a completion one that is found; and that output comes through the   *)
(* filters of its own line as they ask.  And what holds of the editor of   *)
(* lines for any keys: that the line is whole and on the screen, and that  *)
(* Up brings the last one.                                                 *)
(***************************************************************************)
EXTENDS CliServer, CliLine, FiniteSetTheorems, SequenceTheorems, WellFoundedInduction, TLAPS

Fields == {"state", "privilege", "mode", "unique", "filters"}

(* A structure has its fields and no others.                               *)
IsSession(s) == s = [f \in Fields |-> s[f]]

LEMMA SetPrivilegeKeeps ==
  ASSUME NEW s, IsSession(s), NEW p
  PROVE  /\ IsSession(SetPrivilege(s, p))
         /\ SetPrivilege(s, p).privilege = p
         /\ SetPrivilege(s, p).state = s.state
<1>1. CASE p = s.privilege
  BY <1>1 DEF SetPrivilege
<1>2. CASE p # s.privilege
  <2> DEFINE u == BuildShortest(s.unique, s.mode, p)
  <2>1. SetPrivilege(s, p) = [s EXCEPT !.privilege = p, !.unique = u]
    BY <1>2 DEF SetPrivilege
  <2> HIDE DEF u
  <2> QED
    BY <2>1 DEF IsSession, Fields
<1> QED
  BY <1>1, <1>2

LEMMA SetModeKeeps ==
  ASSUME NEW s, IsSession(s), NEW m
  PROVE  /\ IsSession(SetMode(s, m))
         /\ SetMode(s, m).privilege = s.privilege
         /\ SetMode(s, m).state = s.state
<1>1. CASE m = s.mode
  BY <1>1 DEF SetMode
<1>2. CASE m # s.mode
  <2> DEFINE u == BuildShortest(s.unique, m, s.privilege)
  <2>1. SetMode(s, m) = [s EXCEPT !.mode = m, !.unique = u]
    BY <1>2 DEF SetMode
  <2> HIDE DEF u
  <2> QED
    BY <2>1 DEF IsSession, Fields
<1> QED
  BY <1>1, <1>2

LEMMA SetBothKeeps ==
  ASSUME NEW s, IsSession(s), NEW p, NEW m
  PROVE  /\ IsSession(SetBoth(s, p, m))
         /\ SetBoth(s, p, m).privilege = p
         /\ SetBoth(s, p, m).state = s.state
<1>1. /\ IsSession(SetPrivilege(s, p))
      /\ SetPrivilege(s, p).privilege = p
      /\ SetPrivilege(s, p).state = s.state
  BY SetPrivilegeKeeps
<1> QED
  BY <1>1, SetModeKeeps DEF SetBoth

(* The call-back of a command raises the privilege only to enable, and     *)
(* takes nobody to a further prompt than the one for another password.     *)
LEMMA CalledKeeps ==
  ASSUME NEW s, IsSession(s), NEW callback
  PROVE  LET t == Called(s, callback) IN
         /\ IsSession(t)
         /\ t.state = s.state \/ (t.state = "enablePassword" /\ callback = "enable")
         /\ t.privilege \in {s.privilege, 0}
              \/ (callback = "enable" /\ ~EnablePassword)
         /\ callback \in {"disable", "quit"} => t.privilege = 0
<1>1. CASE callback \in {"quit", "disable"}
  <2>1. Called(s, callback) = SetBoth(s, 0, ModeExec)
    BY <1>1 DEF Called
  <2>2. /\ IsSession(SetBoth(s, 0, ModeExec))
        /\ SetBoth(s, 0, ModeExec).privilege = 0
        /\ SetBoth(s, 0, ModeExec).state = s.state
    BY SetBothKeeps
  <2> QED
    BY <1>1, <2>1, <2>2
<1>2. CASE callback = "exit"
  <2>1. Called(s, callback) = Exit(s)
    BY <1>2 DEF Called
  <2>2. \/ Exit(s) = SetMode(s, ModeConfig)
        \/ Exit(s) = SetMode(s, ModeExec)
        \/ Exit(s) = SetBoth(s, 0, ModeExec)
    BY DEF Exit
  <2> QED
    BY <1>2, <2>1, <2>2, SetModeKeeps, SetBothKeeps
<1>3. CASE callback = "enable"
  <2>1. Called(s, callback) = Enable(s)
    BY <1>3 DEF Called
  <2>2. CASE s.privilege = Privileged
    BY <1>3, <2>1, <2>2 DEF Enable
  <2>3. CASE s.privilege # Privileged /\ EnablePassword
    <3>1. Called(s, callback) = [s EXCEPT !.state = "enablePassword"]
      BY <2>1, <2>3 DEF Enable
    <3> QED
      BY <1>3, <3>1 DEF IsSession, Fields
  <2>4. CASE s.privilege # Privileged /\ ~EnablePassword
    <3>1. Called(s, callback) = SetBoth(s, Privileged, ModeExec)
      BY <2>1, <2>4 DEF Enable
    <3>2. /\ IsSession(SetBoth(s, Privileged, ModeExec))
          /\ SetBoth(s, Privileged, ModeExec).state = s.state
      BY SetBothKeeps
    <3> QED
      BY <1>3, <2>4, <3>1, <3>2
  <2> QED
    BY <2>2, <2>3, <2>4
<1>4. CASE callback \in {"configure", "submode"}
  <2>1. Called(s, callback) \in {SetMode(s, ModeConfig), SetMode(s, ModeSub)}
    BY <1>4 DEF Called
  <2> QED
    BY <1>4, <2>1, SetModeKeeps
<1>5. CASE callback \notin {"quit", "exit", "enable", "disable", "configure", "submode"}
  <2>1. Called(s, callback) = s
    BY <1>5 DEF Called
  <2> QED
    BY <1>5, <2>1
<1> QED
  BY <1>1, <1>2, <1>3, <1>4, <1>5

-----------------------------------------------------------------------------
(* The part of the state that access is about.                             *)
AccessInv ==
  /\ \A c \in Clis : IsSession(cli[c])
  /\ DOMAIN cli = Clis
  /\ admitted \in [Clis -> BOOLEAN]
  /\ promoted \in [Clis -> BOOLEAN]
  /\ AccessEarned

(* What a step may do to a structure c, whose new value is s: all others   *)
(* and what is remembered of them stay.                                    *)
Becomes(c, s, a, p) ==
  /\ cli' = [cli EXCEPT ![c] = s]
  /\ admitted' = [admitted EXCEPT ![c] = a]
  /\ promoted' = [promoted EXCEPT ![c] = p]

LEMMA OneChanges ==
  ASSUME AccessInv, NEW c, NEW s, NEW a \in BOOLEAN, NEW p \in BOOLEAN,
         Becomes(c, s, a, p),
         c \in Clis =>
           /\ IsSession(s)
           /\ s.state \in {"normal", "enable", "enablePassword"} => a
           /\ s.privilege = Privileged => a /\ p
  PROVE  AccessInv'
<1>1. DOMAIN cli' = Clis /\ admitted' \in [Clis -> BOOLEAN] /\ promoted' \in [Clis -> BOOLEAN]
  BY DEF AccessInv, Becomes
<1>2. ASSUME NEW d \in Clis
      PROVE  /\ IsSession(cli'[d])
             /\ cli'[d].state \in {"normal", "enable", "enablePassword"} => admitted'[d]
             /\ cli'[d].privilege = Privileged => admitted'[d] /\ promoted'[d]
  <2>1. CASE d = c
    <3>1. cli'[d] = s /\ admitted'[d] = a /\ promoted'[d] = p
      BY <2>1 DEF AccessInv, Becomes
    <3> QED
      BY <2>1, <3>1
  <2>2. CASE d # c
    <3>1. cli'[d] = cli[d] /\ admitted'[d] = admitted[d] /\ promoted'[d] = promoted[d]
      BY <2>2 DEF AccessInv, Becomes
    <3>2. /\ IsSession(cli[d])
          /\ cli[d].state \in {"normal", "enable", "enablePassword"} => admitted[d]
          /\ cli[d].privilege = Privileged => admitted[d] /\ promoted[d]
      BY DEF AccessInv, AccessEarned, AtPrompt
    <3> QED
      BY <3>1, <3>2
  <2> QED
    BY <2>1, <2>2
<1>3. AccessEarned'
  BY <1>2 DEF AccessEarned, AtPrompt
<1> QED
  BY <1>1, <1>2, <1>3 DEF AccessInv

LEMMA NoneChanges ==
  ASSUME AccessInv, UNCHANGED <<cli, admitted, promoted>>
  PROVE  AccessInv'
  BY DEF AccessInv, AccessEarned, AtPrompt

(* What is known of a structure before a step.                             *)
LEMMA Before ==
  ASSUME AccessInv, NEW c \in Clis
  PROVE  /\ IsSession(cli[c])
         /\ admitted[c] \in BOOLEAN /\ promoted[c] \in BOOLEAN
         /\ cli[c].state \in {"normal", "enable", "enablePassword"} => admitted[c]
         /\ cli[c].privilege = Privileged => admitted[c] /\ promoted[c]
  BY DEF AccessInv, AccessEarned, AtPrompt

(* A name or a password for the login.                                     *)
LEMMA LoginKeeps ==
  ASSUME AccessInv, NEW c \in Clis, NEW user \in BOOLEAN, NEW help \in BOOLEAN,
         EnterName(c, user, help) \/ EnterPassword(c, user)
  PROVE  AccessInv'
<1>1. CASE EnterName(c, user, help)
  <2> DEFINE s == [cli[c] EXCEPT !.state = "password"]
  <2>1. cli' = [cli EXCEPT ![c] = s]
    BY <1>1 DEF EnterName
  <2>2. Becomes(c, s, admitted[c], promoted[c])
    BY <1>1, <2>1 DEF EnterName, Becomes, AccessInv
  <2>3. IsSession(s) /\ s.state = "password" /\ s.privilege = cli[c].privilege
    BY Before DEF IsSession, Fields
  <2> QED
    BY <2>2, <2>3, OneChanges, Before
<1>2. CASE EnterPassword(c, user)
  <2> DEFINE allowed == known[c] /\ user /\ ~left[c]
             s == [cli[c] EXCEPT !.state = IF allowed THEN "normal" ELSE "login"]
             a == admitted[c] \/ (known[c] /\ user)
  <2>1. cli' = [cli EXCEPT ![c] = s] /\ admitted' = [admitted EXCEPT ![c] = a]
    BY <1>2 DEF EnterPassword
  <2>2. Becomes(c, s, a, promoted[c])
    BY <1>2, <2>1 DEF EnterPassword, Becomes, AccessInv
  <2>3. /\ IsSession(s)
        /\ s.state \in {"normal", "login"} /\ (s.state = "normal" => allowed)
        /\ s.privilege = cli[c].privilege
    BY Before DEF IsSession, Fields
  <2>4. a \in BOOLEAN /\ (admitted[c] => a) /\ (allowed => a)
    OBVIOUS
  <2> HIDE DEF s, a, allowed
  <2> QED
    BY <2>2, <2>3, <2>4, OneChanges, Before
<1> QED
  BY <1>1, <1>2

(* A password to be privileged.                                            *)
LEMMA EnableKeeps ==
  ASSUME AccessInv, NEW c \in Clis, NEW right \in BOOLEAN, EnterEnablePassword(c, right)
  PROVE  AccessInv'
<1> DEFINE p == promoted[c] \/ right
           e == SetPrivilege([cli[c] EXCEPT !.state = "enable"], Privileged)
           n == [cli[c] EXCEPT !.state = "normal"]
           allowed == right /\ ~left[c]
<1>1. /\ cli[c].state = "enablePassword"
      /\ cli' = [cli EXCEPT ![c] = IF allowed THEN e ELSE n]
      /\ promoted' = [promoted EXCEPT ![c] = p]
      /\ admitted' = admitted
  BY DEF EnterEnablePassword
<1>2. p \in BOOLEAN /\ (promoted[c] => p) /\ (allowed => p)
  OBVIOUS
<1>3. IsSession(n) /\ n.state = "normal" /\ n.privilege = cli[c].privilege
  BY Before DEF IsSession, Fields
<1>4. IsSession(e) /\ e.state = "enable" /\ e.privilege = Privileged
  <2>1. IsSession([cli[c] EXCEPT !.state = "enable"])
        /\ [cli[c] EXCEPT !.state = "enable"].state = "enable"
    BY Before DEF IsSession, Fields
  <2> QED
    BY <2>1, SetPrivilegeKeeps
<1> HIDE DEF p, e, n, allowed
<1>5. Becomes(c, IF allowed THEN e ELSE n, admitted[c], p)
  BY <1>1 DEF Becomes, AccessInv
<1> QED
  BY <1>1, <1>2, <1>3, <1>4, <1>5, OneChanges, Before

(* A line at the prompt.                                                   *)
LEMMA LineKeeps ==
  ASSUME AccessInv, NEW c \in Clis, NEW line, EnterLine(c, line)
  PROVE  AccessInv'
<1> DEFINE found == FindLine(cli[c], line)
           s == SetMode(cli[c], found.mode)
           chain == Install(line.filters, cli[c].filters)
<1>1. /\ AtPrompt(c)
      /\ \/ RunNothing(c, line, found)
         \/ RunRefused(c, line, found)
         \/ RunCommand(c, line, found)
  BY DEF EnterLine
<1>2. IsSession(s) /\ s.privilege = cli[c].privilege /\ s.state = cli[c].state
  BY SetModeKeeps, Before
<1>3. cli[c].state \in {"normal", "enable"} /\ admitted[c]
  BY <1>1, Before DEF AtPrompt
<1>4. CASE RunNothing(c, line, found)
  <2>1. cli' = [cli EXCEPT ![c] = s]
    BY <1>4 DEF RunNothing
  <2>2. Becomes(c, s, admitted[c], promoted[c])
    BY <1>4, <2>1 DEF RunNothing, Becomes, AccessInv
  <2> HIDE DEF s
  <2> QED
    BY <2>2, <1>2, <1>3, OneChanges, Before
<1>5. CASE RunRefused(c, line, found)
  <2> DEFINE t == [s EXCEPT !.filters = chain.chain]
  <2>1. cli' = [cli EXCEPT ![c] = t]
    BY <1>5 DEF RunRefused
  <2>2. Becomes(c, t, admitted[c], promoted[c])
    BY <1>5, <2>1 DEF RunRefused, Becomes, AccessInv
  <2>3. IsSession(t) /\ t.privilege = s.privilege /\ t.state = s.state
    <3> HIDE DEF s, chain
    <3> QED
      BY <1>2 DEF IsSession, Fields
  <2> HIDE DEF s, t
  <2> QED
    BY <2>2, <2>3, <1>2, <1>3, OneChanges, Before
<1>6. CASE RunCommand(c, line, found)
  <2> DEFINE callback == Callback(found.cmd)
             d == Called(s, callback)
             to == IF Quits(s, callback) THEN "none" ELSE d.state
             t == [d EXCEPT !.filters = <<>>, !.state = to]
             p == CASE callback = "enable" -> promoted[c] \/ ~EnablePassword
                    [] callback \in {"disable", "quit"} -> FALSE
                    [] OTHER -> promoted[c]
  <2>1. cli' = [cli EXCEPT ![c] = t] /\ promoted' = [promoted EXCEPT ![c] = p]
        /\ admitted' = admitted
    BY <1>6 DEF RunCommand
  <2>2. Becomes(c, t, admitted[c], p)
    BY <2>1 DEF Becomes, AccessInv
  <2>3. /\ IsSession(d)
        /\ d.state = s.state \/ (d.state = "enablePassword" /\ callback = "enable")
        /\ d.privilege \in {s.privilege, 0} \/ (callback = "enable" /\ ~EnablePassword)
        /\ callback \in {"disable", "quit"} => d.privilege = 0
    BY <1>2, CalledKeeps
  <2>4. to \in {"none", d.state}
    OBVIOUS
  <2> HIDE DEF s, d, to, callback, chain
  <2>5. IsSession(t) /\ t.privilege = d.privilege /\ t.state = to
    BY <2>3 DEF IsSession, Fields
  <2>6. p \in BOOLEAN
    BY Before, SessionAssumption DEF SessionAssumption
  <2>7. t.privilege = Privileged => p
    BY <2>3, <2>5, <1>2, Before, SessionAssumption DEF SessionAssumption
  <2> HIDE DEF t, p
  <2> QED
    BY <2>2, <2>5, <2>6, <2>7, <1>3, OneChanges, Before
<1> QED
  BY <1>1, <1>4, <1>5, <1>6

(* Any change of the structure that a step within a loop can make.         *)
LEMMA TypedKeeps ==
  ASSUME AccessInv, NEW c \in Clis, Typed(c)
  PROVE  AccessInv'
<1>1. CASE \E user, help \in BOOLEAN : EnterName(c, user, help)
  BY <1>1, LoginKeeps
<1>2. CASE \E right \in BOOLEAN : EnterPassword(c, right) \/ EnterEnablePassword(c, right)
  BY <1>2, LoginKeeps, EnableKeeps
<1>3. CASE \E line \in Lines : EnterLine(c, line)
  BY <1>3, LineKeeps
<1>4. CASE LeaveModes(c)
  <2> DEFINE s == SetMode(cli[c], ModeExec)
  <2>1. Becomes(c, s, admitted[c], promoted[c])
    BY <1>4 DEF LeaveModes, Becomes, AccessInv
  <2>2. IsSession(s) /\ s.privilege = cli[c].privilege /\ s.state = cli[c].state
    BY SetModeKeeps, Before
  <2> HIDE DEF s
  <2> QED
    BY <2>1, <2>2, OneChanges, Before
<1>5. CASE Key(c)
  BY <1>5, NoneChanges DEF Key
<1> QED
  BY <1>1, <1>2, <1>3, <1>4, <1>5 DEF Typed

LEMMA EndKeeps ==
  ASSUME AccessInv, NEW c \in Clis, EndLoop(c)
  PROVE  AccessInv'
<1> DEFINE s == [cli[c] EXCEPT !.state = "none"]
<1>1. Becomes(c, s, admitted[c], promoted[c])
  BY DEF EndLoop, Becomes, AccessInv
<1>2. IsSession(s) /\ s.privilege = cli[c].privilege /\ s.state = "none"
  BY Before DEF IsSession, Fields
<1> HIDE DEF s
<1> QED
  BY <1>1, <1>2, OneChanges, Before

LEMMA WaitedKeeps ==
  ASSUME AccessInv, NEW c \in Clis, Waited(c)
  PROVE  AccessInv'
<1>1. CASE Second(c)
  BY <1>1, NoneChanges DEF Second
<1>2. CASE TimeOut(c)
  BY <1>2, EndKeeps DEF TimeOut
<1> QED
  BY <1>1, <1>2 DEF Waited

(* A loop that begins, on a structure that was in use or not.              *)
LEMMA BeginKeeps ==
  ASSUME AccessInv, NEW c \in Clis, BeginLoop(c)
  PROVE  AccessInv'
<1> DEFINE built == [cli[c] EXCEPT !.unique = BuildShortest(@, cli[c].mode, cli[c].privilege)]
           s == [SetBoth(built, 0, ModeExec) EXCEPT !.state = "login"]
<1>1. Becomes(c, s, FALSE, FALSE)
  BY DEF BeginLoop, Becomes
<1>2. IsSession(built)
  <2> DEFINE u == BuildShortest(cli[c].unique, cli[c].mode, cli[c].privilege)
  <2>1. built = [cli[c] EXCEPT !.unique = u]
    OBVIOUS
  <2> HIDE DEF u, built
  <2> QED
    BY <2>1, Before DEF IsSession, Fields
<1> HIDE DEF built
<1>3. IsSession(SetBoth(built, 0, ModeExec)) /\ SetBoth(built, 0, ModeExec).privilege = 0
  BY <1>2, SetBothKeeps
<1>4. IsSession(s) /\ s.privilege = 0 /\ s.state = "login"
  BY <1>3 DEF IsSession, Fields
<1>5. Privileged # 0
  BY SessionAssumption DEF SessionAssumption
<1> HIDE DEF s
<1> QED
  BY <1>1, <1>4, <1>5, OneChanges

-----------------------------------------------------------------------------
(* Whom the server tells what: a thread that runs has been told one of the *)
(* structures, though maybe not its own.                                   *)
ThreadStates ==
  {"none", "readCli", "readSocket", "begin", "loop", "fclose", "close", "cliDone", "done"}

ServerInv ==
  /\ accepted \in Nat
  /\ new \in Nat
  /\ listener \in {"accept", "cli", "socket", "start"}
  /\ args \in [cli : Nat, socket : Nat]
  /\ open \in [Sockets -> Nat]
  /\ pc \in [Clis -> ThreadStates]
  /\ own \in [Clis -> [cli : Nat, socket : Nat]]
  /\ listener # "accept" => accepted \in Clis
  /\ listener \in {"socket", "start"} => args.cli \in Clis
  /\ \A t \in Clis : pc[t] # "none" => args.cli \in Clis
  /\ \A t \in Clis : pc[t] \notin {"none", "readCli"} => own[t].cli \in Clis

LEMMA ClisAreNumbers ==
  /\ Cardinality(Clis) \in Nat
  /\ Clis = 1..Cardinality(Clis)
  /\ Sockets \subseteq Nat
  BY ServerAssumption DEF ServerAssumption

LEMMA ServerInitial == Init => ServerInv
  BY ClisAreNumbers DEF Init, ServerInv, ThreadStates, Nobody

LEMMA ServerStep == ServerInv /\ [Next]_vars => ServerInv'
<1> SUFFICES ASSUME ServerInv, [Next]_vars PROVE ServerInv'
  OBVIOUS
<1>0. open \in [Sockets -> Nat] /\ accepted \in Nat
  BY DEF ServerInv
<1>1. CASE Accept
  <2>1. PICK s \in Sockets : new' = s /\ open' = [open EXCEPT ![s] = accepted + 1]
    BY <1>1 DEF Accept
  <2>2. accepted + 1 \in Nat /\ accepted + 1 \in Clis
    <3>1. PICK n \in Nat : n = Cardinality(Clis) /\ Clis = 1..n
      BY ClisAreNumbers
    <3>2. accepted < n
      BY <1>1, <3>1 DEF Accept
    <3>3. accepted + 1 \in Nat /\ accepted + 1 \in 1..n
      BY <1>0, <3>2
    <3> QED
      BY <3>1, <3>3
  <2>3. new' \in Nat /\ open' \in [Sockets -> Nat]
    BY <1>0, <2>1, <2>2, ClisAreNumbers
  <2>4. accepted' = accepted + 1 /\ listener' = "cli" /\ UNCHANGED <<args, pc, own>>
    BY <1>1 DEF Accept
  <2> QED
    BY <2>2, <2>3, <2>4 DEF ServerInv
<1>2. CASE SetCli
  BY <1>2, ClisAreNumbers DEF SetCli, ServerInv, ThreadStates
<1>3. CASE SetSocket
  BY <1>3, ClisAreNumbers DEF SetSocket, ServerInv, ThreadStates
<1>4. CASE StartTask
  BY <1>4, ClisAreNumbers DEF StartTask, ServerInv, ThreadStates
<1>5. CASE FailTask
  BY <1>5, ClisAreNumbers DEF FailTask, ServerInv, ThreadStates
<1>6. ASSUME NEW t \in Clis, ReadCli(t) PROVE ServerInv'
  BY <1>6 DEF ReadCli, Goto, ServerInv, ThreadStates
<1>7. ASSUME NEW t \in Clis, ReadSocket(t) PROVE ServerInv'
  BY <1>7 DEF ReadSocket, Goto, ServerInv, ThreadStates
<1>8. ASSUME NEW t \in Clis, Begin(t) PROVE ServerInv'
  BY <1>8 DEF Begin, Goto, ServerInv, ThreadStates
<1>9. ASSUME NEW t \in Clis, Serve(t) \/ Wait(t) PROVE ServerInv'
  BY <1>9 DEF Serve, Wait, ServerInv, ThreadStates
<1>10. ASSUME NEW t \in Clis, Leave(t) PROVE ServerInv'
  BY <1>10 DEF Leave, Goto, ServerInv, ThreadStates
<1>11. ASSUME NEW t \in Clis, Fclose(t) \/ Close(t) PROVE ServerInv'
  <2>1. open' = [open EXCEPT ![own[t].socket] = 0] /\ UNCHANGED <<accepted, listener, new, args, own>>
    BY <1>11 DEF Fclose, Close, Nobody
  <2>2. open' \in [Sockets -> Nat]
    BY <1>0, <2>1
  <2>3. \/ pc[t] = "fclose" /\ pc' = [pc EXCEPT ![t] = "close"]
        \/ pc[t] = "close" /\ pc' = [pc EXCEPT ![t] = "cliDone"]
    BY <1>11 DEF Fclose, Close, Goto
  <2>4. UNCHANGED <<accepted, listener, new, args, own>>
    BY <2>1
  <2> QED
    BY <2>2, <2>3, <2>4 DEF ServerInv, ThreadStates
<1>12. ASSUME NEW t \in Clis, Done(t) PROVE ServerInv'
  BY <1>12 DEF Done, Goto, ServerInv, ThreadStates
<1>13. CASE UNCHANGED vars
  BY <1>13 DEF vars, serverVars, ServerInv
<1> QED
  BY <1>1, <1>2, <1>3, <1>4, <1>5, <1>6, <1>7, <1>8, <1>9, <1>10, <1>11, <1>12, <1>13
     DEF Next, Listen, Start, Run

LEMMA AccessInitial == Init => AccessInv
<1> SUFFICES ASSUME Init PROVE AccessInv
  OBVIOUS
<1>1. Privileged # 0
  BY SessionAssumption DEF SessionAssumption
<1> QED
  BY <1>1 DEF Init, InitSessions, AccessInv, AccessEarned, AtPrompt, IsSession, Fields, Blank

LEMMA AccessStep == ServerInv /\ AccessInv /\ [Next]_vars => AccessInv'
<1> SUFFICES ASSUME ServerInv, AccessInv, [Next]_vars PROVE AccessInv'
  OBVIOUS
<1>1. CASE Listen
  BY <1>1, NoneChanges DEF Listen, Start, Accept, SetCli, SetSocket, StartTask, FailTask, sessionVars
<1>2. ASSUME NEW t \in Clis, ReadCli(t) \/ ReadSocket(t) \/ Fclose(t) \/ Close(t)
      PROVE  AccessInv'
  BY <1>2, NoneChanges DEF ReadCli, ReadSocket, Fclose, Close, sessionVars
<1>3. ASSUME NEW t \in Clis, pc[t] \notin {"none", "readCli"} PROVE own[t].cli \in Clis
  BY <1>3 DEF ServerInv
<1>4. ASSUME NEW t \in Clis, Begin(t) PROVE AccessInv'
  BY <1>3, <1>4, BeginKeeps DEF Begin, Goto
<1>5. ASSUME NEW t \in Clis, Serve(t) PROVE AccessInv'
  BY <1>3, <1>5, TypedKeeps DEF Serve
<1>6. ASSUME NEW t \in Clis, Wait(t) PROVE AccessInv'
  BY <1>3, <1>6, WaitedKeeps DEF Wait
<1>7. ASSUME NEW t \in Clis, Leave(t) PROVE AccessInv'
  BY <1>3, <1>7, EndKeeps DEF Leave, Goto
<1>8. ASSUME NEW t \in Clis, Done(t) PROVE AccessInv'
  <2> DEFINE c == own[t].cli
  <2>1. c \in Clis
    BY <1>3, <1>8 DEF Done, Goto
  <2>2. cli' = [cli EXCEPT ![c] = Blank] /\ admitted' = admitted /\ promoted' = promoted
    BY <1>8 DEF Done
  <2> HIDE DEF c
  <2>3. Becomes(c, Blank, admitted[c], promoted[c])
    BY <2>1, <2>2 DEF Becomes, AccessInv
  <2>4. IsSession(Blank) /\ Blank.privilege = 0 /\ Blank.state = "none"
    BY DEF Blank, IsSession, Fields
  <2>5. Privileged # 0
    BY SessionAssumption DEF SessionAssumption
  <2> HIDE DEF Blank
  <2> QED
    BY <2>1, <2>3, <2>4, <2>5, OneChanges, Before
<1>9. CASE UNCHANGED vars
  BY <1>9, NoneChanges DEF vars, sessionVars
<1> QED
  BY <1>1, <1>2, <1>4, <1>5, <1>6, <1>7, <1>8, <1>9 DEF Next, Run

(* Nobody gets to the prompt without a user's name and password, nor is    *)
(* anybody privileged who did not become so as the library asks: of any    *)
(* commands and lines, and whatever happens to the threads' arguments.     *)
THEOREM AccessIsEarned == Spec => []AccessEarned
<1>1. Init => ServerInv /\ AccessInv
  BY ServerInitial, AccessInitial
<1>2. ServerInv /\ AccessInv /\ [Next]_vars => ServerInv' /\ AccessInv'
  BY ServerStep, AccessStep
<1>3. AccessInv => AccessEarned
  BY DEF AccessInv
<1> QED
  BY <1>1, <1>2, <1>3, PTL DEF Spec

-----------------------------------------------------------------------------
(* If no connection comes while a thread reads its arguments or is between *)
(* its two closes: what the listener and the threads know of each other.   *)
(* A socket is of one connection from accept to the first close, and at    *)
(* the second close it is still nobody's.                                  *)
ListenerKnows ==
  /\ listener # "accept" => new \in Sockets /\ open[new] = accepted
  /\ listener \in {"socket", "start"} => args.cli = accepted
  /\ listener = "start" => args.socket = new

ThreadKnows(t) ==
  /\ pc[t] # "none" => t <= accepted /\ (t = accepted => listener = "accept")
  /\ pc[t] \in {"readCli", "readSocket"} =>
       /\ listener = "accept"
       /\ args.cli = t
       /\ args.socket \in Sockets /\ open[args.socket] = t
  /\ pc[t] \notin {"none", "readCli"} => own[t].cli = t
  /\ pc[t] \in {"begin", "loop", "fclose"} =>
       own[t].socket \in Sockets /\ open[own[t].socket] = t
  /\ pc[t] = "close" =>
       own[t].socket \in Sockets /\ open[own[t].socket] = 0

OrderInv == ListenerKnows /\ \A t \in Clis : ThreadKnows(t)

LEMMA CliIsNumber == ASSUME NEW t \in Clis PROVE t \in Nat /\ t # 0
<1>1. PICK n \in Nat : Clis = 1..n
  BY ClisAreNumbers
<1> QED
  BY <1>1

(* A step that changes only where thread t is, and what it has read.       *)
LEMMA ThreadMoves ==
  ASSUME ServerInv, OrderInv, NEW t \in Clis, NEW to \in ThreadStates,
         UNCHANGED <<accepted, listener, new, args, open>>,
         pc[t] # "none", pc' = [pc EXCEPT ![t] = to],
         \A u \in Clis : u # t => own'[u] = own[u],
         to \in {"readCli", "readSocket"} => pc[t] \in {"readCli", "readSocket"},
         to # "readCli" => own'[t].cli = t,
         to \in {"begin", "loop", "fclose"} =>
           own'[t].socket \in Sockets /\ open[own'[t].socket] = t,
         to = "close" => own'[t].socket \in Sockets /\ open[own'[t].socket] = 0
  PROVE  OrderInv'
<1>1. pc'[t] = to /\ \A u \in Clis : u # t => pc'[u] = pc[u]
  BY DEF ServerInv
<1>2. ASSUME NEW u \in Clis, u # t PROVE ThreadKnows(u)'
  BY <1>1, <1>2 DEF OrderInv, ThreadKnows
<1>3. ThreadKnows(t)'
  <2>1. ThreadKnows(t)
    BY DEF OrderInv
  <2> QED
    BY <1>1, <2>1 DEF ThreadKnows
<1>4. ListenerKnows'
  BY DEF OrderInv, ListenerKnows
<1> QED
  BY <1>2, <1>3, <1>4 DEF OrderInv

LEMMA OrderStep == ~Overlap /\ ServerInv /\ OrderInv /\ [Next]_vars => OrderInv'
<1> SUFFICES ASSUME ~Overlap, ServerInv, OrderInv, [Next]_vars PROVE OrderInv'
  OBVIOUS
<1>0. open \in [Sockets -> Nat] /\ accepted \in Nat /\ pc \in [Clis -> ThreadStates]
      /\ own \in [Clis -> [cli : Nat, socket : Nat]]
  BY DEF ServerInv
<1>1. CASE Accept
  <2>1. PICK s \in Sockets :
          open[s] = 0 /\ new' = s /\ open' = [open EXCEPT ![s] = accepted + 1]
    BY <1>1 DEF Accept, Nobody
  <2>2. /\ accepted' = accepted + 1 /\ listener' = "cli" /\ UNCHANGED <<args, pc, own>>
        /\ \A t \in Clis : pc[t] \notin {"readCli", "readSocket", "close"}
    BY <1>1 DEF Accept
  <2>3. open'[new'] = accepted' /\ new' \in Sockets
    BY <1>0, <2>1, <2>2
  <2>4. ASSUME NEW t \in Clis, pc[t] # "none" PROVE t <= accepted' /\ t # accepted'
    <3>1. t <= accepted
      BY <2>4 DEF OrderInv, ThreadKnows
    <3>2. t \in Nat
      BY CliIsNumber
    <3>3. accepted' = accepted + 1 /\ accepted \in Nat
      BY <1>0, <2>2
    <3> QED
      BY <3>1, <3>2, <3>3
  <2>5. ASSUME NEW t \in Clis, pc[t] \in {"begin", "loop", "fclose"}
        PROVE  own[t].socket \in Sockets /\ open'[own[t].socket] = t
    <3>1. own[t].socket \in Sockets /\ open[own[t].socket] = t /\ t # 0
      BY <2>5, CliIsNumber DEF OrderInv, ListenerKnows, ThreadKnows
    <3> QED
      BY <1>0, <2>1, <3>1
  <2>6. ASSUME NEW t \in Clis PROVE ThreadKnows(t)'
    BY <2>2, <2>4, <2>5 DEF OrderInv, ThreadKnows
  <2>7. ListenerKnows'
    BY <2>2, <2>3 DEF ListenerKnows
  <2> QED
    BY <2>6, <2>7 DEF OrderInv
<1>2. CASE SetCli
  BY <1>2 DEF SetCli, OrderInv, ListenerKnows, ThreadKnows, ServerInv
<1>3. CASE SetSocket
  BY <1>3 DEF SetSocket, OrderInv, ListenerKnows, ThreadKnows, ServerInv
<1>4. CASE StartTask
  <2>1. /\ listener = "start" /\ listener' = "accept"
        /\ pc' = [pc EXCEPT ![accepted] = "readCli"]
        /\ UNCHANGED <<accepted, new, args, open, own>>
    BY <1>4 DEF StartTask
  <2>2. /\ accepted \in Clis /\ args.cli = accepted
        /\ args.socket \in Sockets /\ open[args.socket] = accepted
    BY <2>1 DEF ServerInv, OrderInv, ListenerKnows, ThreadKnows
  <2>3. pc'[accepted] = "readCli" /\ \A u \in Clis : u # accepted => pc'[u] = pc[u]
    BY <1>0, <2>1, <2>2
  <2>4. \A u \in Clis : pc[u] \notin {"readCli", "readSocket"}
    BY <2>1 DEF OrderInv, ListenerKnows, ThreadKnows
  <2>5. ASSUME NEW u \in Clis, u = accepted PROVE ThreadKnows(u)'
    <3>1. pc'[u] = "readCli" /\ accepted' = u /\ args'.cli = u /\ args'.socket \in Sockets
          /\ open'[args'.socket] = u /\ listener' = "accept"
      BY <2>1, <2>2, <2>3, <2>5
    <3>2. u <= u
      BY CliIsNumber
    <3> QED
      BY <3>1, <3>2 DEF ThreadKnows
  <2>6. ASSUME NEW u \in Clis, u # accepted PROVE ThreadKnows(u)'
    BY <2>1, <2>3, <2>4, <2>6 DEF OrderInv, ThreadKnows
  <2>7. ListenerKnows'
    BY <2>1 DEF ListenerKnows
  <2> QED
    BY <2>5, <2>6, <2>7 DEF OrderInv
<1>5. CASE FailTask
  BY <1>5 DEF FailTask, OrderInv, ListenerKnows, ThreadKnows
<1>6. ASSUME NEW t \in Clis, ReadCli(t) PROVE OrderInv'
  <2>1. /\ pc[t] = "readCli" /\ pc' = [pc EXCEPT ![t] = "readSocket"]
        /\ own' = [own EXCEPT ![t].cli = args.cli]
        /\ UNCHANGED <<accepted, listener, new, args, open>>
    BY <1>6 DEF ReadCli, Goto
  <2>2. args.cli = t
    BY <2>1 DEF OrderInv, ListenerKnows, ThreadKnows
  <2>3. own'[t].cli = t /\ \A u \in Clis : u # t => own'[u] = own[u]
    BY <1>0, <2>1, <2>2
  <2> QED
    BY <2>1, <2>3, ThreadMoves DEF ThreadStates
<1>7. ASSUME NEW t \in Clis, ReadSocket(t) PROVE OrderInv'
  <2>1. /\ pc[t] = "readSocket" /\ pc' = [pc EXCEPT ![t] = "begin"]
        /\ own' = [own EXCEPT ![t].socket = args.socket]
        /\ UNCHANGED <<accepted, listener, new, args, open>>
    BY <1>7 DEF ReadSocket, Goto
  <2>2. own[t].cli = t /\ args.socket \in Sockets /\ open[args.socket] = t
    BY <2>1 DEF OrderInv, ListenerKnows, ThreadKnows
  <2>3. /\ own'[t].cli = t /\ own'[t].socket = args.socket
        /\ \A u \in Clis : u # t => own'[u] = own[u]
    BY <1>0, <2>1, <2>2
  <2> QED
    BY <2>1, <2>2, <2>3, ThreadMoves DEF ThreadStates
<1>8. ASSUME NEW t \in Clis, Begin(t) \/ Serve(t) \/ Wait(t) \/ Leave(t) PROVE OrderInv'
  <2>1. pc[t] \in {"begin", "loop"} /\ UNCHANGED <<accepted, listener, new, args, open, own>>
    BY <1>8 DEF Begin, Serve, Wait, Leave, Goto
  <2>2. own[t].cli = t /\ own[t].socket \in Sockets /\ open[own[t].socket] = t /\ t # 0
    BY <2>1, CliIsNumber DEF OrderInv, ListenerKnows, ThreadKnows
  <2>3. PICK to \in {"loop", "fclose"} : pc' = [pc EXCEPT ![t] = to]
    BY <1>0, <1>8, <2>2 DEF Begin, Serve, Wait, Leave, Goto, Nobody
  <2> QED
    BY <2>1, <2>2, <2>3, ThreadMoves DEF ThreadStates
<1>9. ASSUME NEW t \in Clis, Fclose(t) PROVE OrderInv'
  <2> DEFINE s == own[t].socket
  <2>1. /\ pc[t] = "fclose" /\ pc' = [pc EXCEPT ![t] = "close"]
        /\ open' = [open EXCEPT ![s] = 0]
        /\ UNCHANGED <<accepted, listener, new, args, own>>
    BY <1>9 DEF Fclose, Goto, Nobody
  <2>2. s \in Sockets /\ open[s] = t /\ own[t].cli = t
    BY <2>1 DEF OrderInv, ListenerKnows, ThreadKnows
  <2> HIDE DEF s
  <2>3. open'[s] = 0 /\ \A r \in Sockets : open[r] # t => open'[r] = open[r]
    BY <1>0, <2>1, <2>2
  <2>4. \A r \in Sockets : open[r] = 0 => open'[r] = 0
    BY <1>0, <2>1
  <2>5. pc'[t] = "close" /\ \A u \in Clis : u # t => pc'[u] = pc[u]
    BY <1>0, <2>1
  <2>6. listener # "accept" => open'[new] = accepted
    BY <2>1, <2>3 DEF OrderInv, ListenerKnows, ThreadKnows
  <2>7. ASSUME NEW u \in Clis, u # t
        PROVE  /\ pc[u] \in {"readCli", "readSocket"} => open'[args.socket] = u
               /\ pc[u] \in {"begin", "loop", "fclose"} => open'[own[u].socket] = u
               /\ pc[u] = "close" => open'[own[u].socket] = 0
    BY <2>3, <2>4, <2>7 DEF OrderInv, ListenerKnows, ThreadKnows
  <2>8. own[t].socket \in Sockets /\ open'[own[t].socket] = 0
    BY <2>2, <2>3 DEF s
  <2>9. ThreadKnows(t)'
    BY <2>1, <2>2, <2>5, <2>8 DEF OrderInv, ThreadKnows
  <2>10. ASSUME NEW u \in Clis, u # t PROVE ThreadKnows(u)'
    BY <2>1, <2>5, <2>7, <2>10 DEF OrderInv, ThreadKnows
  <2>11. ListenerKnows'
    BY <2>1, <2>6 DEF OrderInv, ListenerKnows
  <2> QED
    BY <2>9, <2>10, <2>11 DEF OrderInv
<1>10. ASSUME NEW t \in Clis, Close(t) PROVE OrderInv'
  <2>1. /\ pc[t] = "close" /\ pc' = [pc EXCEPT ![t] = "cliDone"]
        /\ open' = [open EXCEPT ![own[t].socket] = 0]
        /\ UNCHANGED <<accepted, listener, new, args, own>>
    BY <1>10 DEF Close, Goto, Nobody
  <2>2. open[own[t].socket] = 0 /\ own[t].cli = t
    BY <2>1 DEF OrderInv, ListenerKnows, ThreadKnows
  <2>3. open' = open
    BY <1>0, <2>1, <2>2
  <2> QED
    BY <2>1, <2>2, <2>3, ThreadMoves DEF ThreadStates
<1>11. ASSUME NEW t \in Clis, Done(t) PROVE OrderInv'
  <2>1. /\ pc[t] = "cliDone" /\ pc' = [pc EXCEPT ![t] = "done"]
        /\ UNCHANGED <<accepted, listener, new, args, open, own>>
    BY <1>11 DEF Done, Goto
  <2>2. own[t].cli = t
    BY <2>1 DEF OrderInv, ListenerKnows, ThreadKnows
  <2> QED
    BY <2>1, <2>2, ThreadMoves DEF ThreadStates
<1>12. CASE UNCHANGED vars
  BY <1>12 DEF vars, serverVars, OrderInv, ListenerKnows, ThreadKnows
<1> QED
  BY <1>1, <1>2, <1>3, <1>4, <1>5, <1>6, <1>7, <1>8, <1>9, <1>10, <1>11, <1>12
     DEF Next, Listen, Start, Run

(* Every session is on the connection its thread was started for, and uses *)
(* the structure that was made for it, of any number of connections and    *)
(* sockets, if none comes while a thread reads its arguments.              *)
THEOREM SessionsAreApart == ASSUME ~Overlap PROVE Spec => []OwnConnection
<1>1. Init => ServerInv /\ OrderInv
  <2>1. Init => OrderInv
    BY DEF Init, OrderInv, ListenerKnows, ThreadKnows
  <2> QED
    BY <2>1, ServerInitial
<1>2. ServerInv /\ OrderInv /\ [Next]_vars => ServerInv' /\ OrderInv'
  BY ServerStep, OrderStep
<1>3. OrderInv => OwnConnection
  BY DEF OrderInv, ThreadKnows, OwnConnection
<1> QED
  BY <1>1, <1>2, <1>3, PTL DEF Spec

-----------------------------------------------------------------------------
(* Nothing is left in the line where a right password is looked at, if no  *)
(* line that asks for help runs enable.                                    *)
Clean(c) ==
  (cli[c].state = "password" /\ known[c]) \/ cli[c].state = "enablePassword" => ~left[c]

LeftInv ==
  /\ DOMAIN known = Clis
  /\ DOMAIN left = Clis
  /\ \A c \in Clis : Clean(c)

LEMMA OneCleans ==
  ASSUME AccessInv, LeftInv, NEW c \in Clis, NEW s,
         cli' = [cli EXCEPT ![c] = s],
         known' = known \/ \E k : known' = [known EXCEPT ![c] = k],
         left' = left \/ \E l : left' = [left EXCEPT ![c] = l],
         s.state \notin {"password", "enablePassword"} \/ (s.state = cli[c].state /\ UNCHANGED <<known, left>>)
  PROVE  LeftInv'
<1>1. DOMAIN known' = Clis /\ DOMAIN left' = Clis
  BY DEF LeftInv
<1>2. ASSUME NEW d \in Clis PROVE Clean(d)'
  <2>1. CASE d # c
    <3>1. cli'[d] = cli[d] /\ known'[d] = known[d] /\ left'[d] = left[d]
      BY <2>1 DEF AccessInv, LeftInv
    <3> QED
      BY <3>1 DEF LeftInv, Clean
  <2>2. CASE d = c
    <3>1. cli'[c] = s
      BY DEF AccessInv
    <3> QED
      BY <2>2, <3>1 DEF LeftInv, Clean
  <2> QED
    BY <2>1, <2>2
<1> QED
  BY <1>1, <1>2 DEF LeftInv

LEMMA NameCleans ==
  ASSUME AccessInv, LeftInv, NEW c \in Clis, NEW user, NEW help, EnterName(c, user, help)
  PROVE  LeftInv'
<1>1. /\ cli' = [cli EXCEPT ![c] = [cli[c] EXCEPT !.state = "password"]]
      /\ known' = [known EXCEPT ![c] = user /\ ~help]
      /\ left' = [left EXCEPT ![c] = help]
  BY DEF EnterName, Answered
<1>2. DOMAIN known' = Clis /\ DOMAIN left' = Clis
  BY <1>1 DEF LeftInv
<1>3. known'[c] = (user /\ ~help) /\ left'[c] = help
  BY <1>1 DEF LeftInv
<1>4. cli'[c].state = "password"
  BY <1>1, Before DEF AccessInv, IsSession, Fields
<1>5. Clean(c)'
  BY <1>3, <1>4 DEF Clean
<1>6. ASSUME NEW d \in Clis, d # c PROVE Clean(d)'
  <2>1. cli'[d] = cli[d] /\ known'[d] = known[d] /\ left'[d] = left[d]
    BY <1>1, <1>6 DEF AccessInv, LeftInv
  <2> QED
    BY <2>1 DEF LeftInv, Clean
<1> QED
  BY <1>2, <1>5, <1>6 DEF LeftInv

LEMMA PasswordCleans ==
  ASSUME AccessInv, LeftInv, NEW c \in Clis, NEW right \in BOOLEAN,
         EnterPassword(c, right) \/ EnterEnablePassword(c, right)
  PROVE  LeftInv' /\ Admits(c)
<1>1. CASE EnterPassword(c, right)
  <2> DEFINE allowed == known[c] /\ right /\ ~left[c]
             s == [cli[c] EXCEPT !.state = IF allowed THEN "normal" ELSE "login"]
             k == known[c] /\ allowed
  <2>1. /\ cli[c].state = "password"
        /\ cli' = [cli EXCEPT ![c] = s]
        /\ known' = [known EXCEPT ![c] = k]
        /\ left' = [left EXCEPT ![c] = FALSE]
        /\ admitted' = [admitted EXCEPT ![c] = admitted[c] \/ (known[c] /\ right)]
    BY <1>1 DEF EnterPassword, Answered
  <2>2. s.state = IF allowed THEN "normal" ELSE "login"
    BY Before DEF IsSession, Fields
  <2>3. known[c] => ~left[c]
    BY <2>1 DEF LeftInv, Clean
  <2>4. admitted'[c] = (admitted[c] \/ (known[c] /\ right))
    BY <2>1 DEF AccessInv
  <2>5. ~admitted[c] /\ admitted'[c] => allowed
    BY <2>3, <2>4
  <2>6. cli'[c] = s
    BY <2>1 DEF AccessInv
  <2> HIDE DEF s, allowed, k
  <2>7. Admits(c)
    BY <2>1, <2>2, <2>5, <2>6 DEF Admits
  <2>8. s.state \notin {"password", "enablePassword"}
    BY <2>2
  <2> QED
    BY <2>1, <2>7, <2>8, OneCleans
<1>2. CASE EnterEnablePassword(c, right)
  <2> DEFINE allowed == right /\ ~left[c]
             e == SetPrivilege([cli[c] EXCEPT !.state = "enable"], Privileged)
             n == [cli[c] EXCEPT !.state = "normal"]
             s == IF allowed THEN e ELSE n
  <2>1. /\ cli[c].state = "enablePassword"
        /\ cli' = [cli EXCEPT ![c] = s]
        /\ known' = known
        /\ left' = [left EXCEPT ![c] = FALSE]
        /\ promoted' = [promoted EXCEPT ![c] = promoted[c] \/ right]
    BY <1>2 DEF EnterEnablePassword, Answered
  <2>2. n.state = "normal"
    BY Before DEF IsSession, Fields
  <2>3. e.state = "enable" /\ e.privilege = Privileged
    <3>1. IsSession([cli[c] EXCEPT !.state = "enable"])
          /\ [cli[c] EXCEPT !.state = "enable"].state = "enable"
      BY Before DEF IsSession, Fields
    <3> QED
      BY <3>1, SetPrivilegeKeeps
  <2>4. ~left[c]
    BY <2>1 DEF LeftInv, Clean
  <2>5. promoted'[c] = (promoted[c] \/ right)
    BY <2>1 DEF AccessInv
  <2>6. ~promoted[c] /\ promoted'[c] => allowed
    BY <2>4, <2>5
  <2>7. cli'[c] = s
    BY <2>1 DEF AccessInv
  <2> HIDE DEF e, n, allowed
  <2>8. Admits(c)
    BY <2>1, <2>3, <2>6, <2>7 DEF Admits
  <2>9. s.state \notin {"password", "enablePassword"}
    BY <2>2, <2>3
  <2> HIDE DEF s
  <2> QED
    BY <2>1, <2>8, <2>9, OneCleans
<1> QED
  BY <1>1, <1>2

LEMMA LineCleans ==
  ASSUME AccessInv, LeftInv, HelpEnablesNobody, NEW c \in Clis, NEW line \in Lines,
         EnterLine(c, line)
  PROVE  LeftInv'
<1> DEFINE found == FindLine(cli[c], line)
           s == SetMode(cli[c], found.mode)
           chain == Install(line.filters, cli[c].filters)
<1>1. /\ AtPrompt(c)
      /\ \/ RunNothing(c, line, found)
         \/ RunRefused(c, line, found)
         \/ RunCommand(c, line, found)
  BY DEF EnterLine
<1>2. IsSession(s) /\ s.state = cli[c].state
  BY SetModeKeeps, Before
<1>3. cli[c].state \in {"normal", "enable"}
  BY <1>1 DEF AtPrompt
<1>4. left' = [left EXCEPT ![c] = line.help] /\ known' = known
  BY <1>1 DEF RunNothing, RunRefused, RunCommand, Answered
<1>5. CASE RunNothing(c, line, found)
  <2>1. cli' = [cli EXCEPT ![c] = s]
    BY <1>5 DEF RunNothing
  <2> HIDE DEF s
  <2> QED
    BY <1>2, <1>3, <1>4, <2>1, OneCleans
<1>6. CASE RunRefused(c, line, found)
  <2> DEFINE t == [s EXCEPT !.filters = chain.chain]
  <2>1. cli' = [cli EXCEPT ![c] = t]
    BY <1>6 DEF RunRefused
  <2>2. t.state = s.state
    <3> HIDE DEF s, chain
    <3> QED
      BY <1>2 DEF IsSession, Fields
  <2> HIDE DEF s, t
  <2> QED
    BY <1>2, <1>3, <1>4, <2>1, <2>2, OneCleans
<1>7. CASE RunCommand(c, line, found)
  <2> DEFINE callback == Callback(found.cmd)
             d == Called(s, callback)
             to == IF Quits(s, callback) THEN "none" ELSE d.state
             t == [d EXCEPT !.filters = <<>>, !.state = to]
  <2>1. cli' = [cli EXCEPT ![c] = t] /\ found.cmd # 0
    BY <1>7 DEF RunCommand
  <2>2. /\ IsSession(d)
        /\ d.state = s.state \/ (d.state = "enablePassword" /\ callback = "enable")
    BY <1>2, CalledKeeps
  <2>3. to \in {"none", d.state}
    OBVIOUS
  <2>4. callback = "enable" => ~line.help
    BY <1>1, <2>1 DEF HelpEnablesNobody
  <2> HIDE DEF s, d, to, callback, chain, found
  <2>5. t.state = to
    BY <2>2 DEF IsSession, Fields
  <2> HIDE DEF t
  <2>6. to \in {"none", "normal", "enable"} \/ (to = "enablePassword" /\ ~line.help)
    BY <1>2, <1>3, <2>2, <2>3, <2>4
  <2>7. CASE to \in {"none", "normal", "enable"}
    <3>1. t.state \notin {"password", "enablePassword"}
      BY <2>5, <2>7
    <3> QED
      BY <1>4, <2>1, <3>1, OneCleans
  <2>8. CASE to = "enablePassword" /\ ~line.help
    <3>1. /\ DOMAIN known' = Clis /\ DOMAIN left' = Clis
          /\ ~left'[c]
      BY <1>4, <2>8 DEF LeftInv
    <3>2. Clean(c)'
      BY <3>1 DEF Clean
    <3>3. ASSUME NEW e \in Clis, e # c PROVE Clean(e)'
      <4>1. cli'[e] = cli[e] /\ known'[e] = known[e] /\ left'[e] = left[e]
        BY <1>4, <2>1, <3>3 DEF AccessInv, LeftInv
      <4> QED
        BY <4>1 DEF LeftInv, Clean
    <3> QED
      BY <3>1, <3>2, <3>3 DEF LeftInv
  <2> QED
    BY <2>6, <2>7, <2>8
<1> QED
  BY <1>1, <1>5, <1>6, <1>7

LEMMA BeginCleans ==
  ASSUME AccessInv, LeftInv, NEW c \in Clis, BeginLoop(c)
  PROVE  LeftInv'
<1> DEFINE built == [cli[c] EXCEPT !.unique = BuildShortest(@, cli[c].mode, cli[c].privilege)]
           s == [SetBoth(built, 0, ModeExec) EXCEPT !.state = "login"]
<1>1. /\ cli' = [cli EXCEPT ![c] = s]
      /\ known' = [known EXCEPT ![c] = FALSE] /\ left' = [left EXCEPT ![c] = FALSE]
  BY DEF BeginLoop
<1>2. IsSession(built)
  <2> DEFINE u == BuildShortest(cli[c].unique, cli[c].mode, cli[c].privilege)
  <2>1. built = [cli[c] EXCEPT !.unique = u]
    OBVIOUS
  <2> HIDE DEF u, built
  <2> QED
    BY <2>1, Before DEF IsSession, Fields
<1> HIDE DEF built
<1>3. IsSession(SetBoth(built, 0, ModeExec))
  BY <1>2, SetBothKeeps
<1>4. s.state = "login"
  BY <1>3 DEF IsSession, Fields
<1> HIDE DEF s
<1> QED
  BY <1>1, <1>4, OneCleans

LEMMA EndCleans ==
  ASSUME AccessInv, LeftInv, NEW c \in Clis, EndLoop(c)
  PROVE  LeftInv'
<1> DEFINE s == [cli[c] EXCEPT !.state = "none"]
<1>1. cli' = [cli EXCEPT ![c] = s] /\ UNCHANGED <<known, left>>
  BY DEF EndLoop
<1>2. s.state = "none"
  BY Before DEF IsSession, Fields
<1> HIDE DEF s
<1> QED
  BY <1>1, <1>2, OneCleans

LEMMA LeaveModesCleans ==
  ASSUME AccessInv, LeftInv, NEW c \in Clis, LeaveModes(c)
  PROVE  LeftInv'
<1> DEFINE s == SetMode(cli[c], ModeExec)
<1>1. cli' = [cli EXCEPT ![c] = s] /\ UNCHANGED <<known, left>>
  BY DEF LeaveModes
<1>2. s.state = cli[c].state
  BY Before, SetModeKeeps
<1> HIDE DEF s
<1> QED
  BY <1>1, <1>2, OneCleans

-----------------------------------------------------------------------------
(* Everything but a right password leaves what was given as it is, or      *)
(* takes it back, or happens where no password is looked at.               *)
Unasked(c) ==
  /\ \A d \in Clis : d # c => admitted'[d] = admitted[d] /\ promoted'[d] = promoted[d]
  /\ \/ admitted'[c] = admitted[c] /\ promoted'[c] = promoted[c]
     \/ ~admitted'[c] /\ ~promoted'[c]
     \/ cli[c].state \notin {"password", "enablePassword"}

LEMMA TypedCleans ==
  ASSUME AccessInv, LeftInv, HelpEnablesNobody, NEW c \in Clis, Typed(c)
  PROVE  /\ LeftInv'
         /\ Admits(c) \/ Unasked(c)
         /\ \A d \in Clis : d # c => admitted'[d] = admitted[d] /\ promoted'[d] = promoted[d]
<1> USE DEF AccessInv
<1>1. ASSUME NEW user \in BOOLEAN, NEW help \in BOOLEAN, EnterName(c, user, help)
      PROVE  LeftInv' /\ Unasked(c)
  <2>1. LeftInv'
    BY <1>1, NameCleans
  <2>2. UNCHANGED <<admitted, promoted>>
    BY <1>1 DEF EnterName
  <2> QED
    BY <2>1, <2>2 DEF Unasked
<1>2. ASSUME NEW right \in BOOLEAN, EnterPassword(c, right) \/ EnterEnablePassword(c, right)
      PROVE  /\ LeftInv' /\ Admits(c)
             /\ \A d \in Clis : d # c => admitted'[d] = admitted[d] /\ promoted'[d] = promoted[d]
  <2>1. LeftInv' /\ Admits(c)
    BY <1>2, PasswordCleans
  <2>2. \A d \in Clis : d # c => admitted'[d] = admitted[d] /\ promoted'[d] = promoted[d]
    BY <1>2 DEF EnterPassword, EnterEnablePassword
  <2> QED
    BY <2>1, <2>2
<1>3. ASSUME NEW line \in Lines, EnterLine(c, line) PROVE LeftInv' /\ Unasked(c)
  <2>1. LeftInv'
    BY <1>3, LineCleans
  <2>2. cli[c].state \notin {"password", "enablePassword"}
    BY <1>3 DEF EnterLine, AtPrompt
  <2>3. \A d \in Clis : d # c => admitted'[d] = admitted[d] /\ promoted'[d] = promoted[d]
    <3>1. \E found : RunNothing(c, line, found) \/ RunRefused(c, line, found) \/ RunCommand(c, line, found)
      BY <1>3 DEF EnterLine
    <3>2. admitted' = admitted /\ (promoted' = promoted \/ \E p : promoted' = [promoted EXCEPT ![c] = p])
      BY <3>1 DEF RunNothing, RunRefused, RunCommand
    <3> QED
      BY <3>2
  <2> QED
    BY <2>1, <2>2, <2>3 DEF Unasked
<1>4. CASE LeaveModes(c)
  BY <1>4, LeaveModesCleans DEF LeaveModes, Unasked
<1>5. CASE Key(c)
  BY <1>5 DEF Key, Unasked, LeftInv, Clean
<1>6. Unasked(c) => \A d \in Clis : d # c => admitted'[d] = admitted[d] /\ promoted'[d] = promoted[d]
  BY DEF Unasked
<1> QED
  BY <1>1, <1>2, <1>3, <1>4, <1>5, <1>6 DEF Typed

LEMMA UnaskedAdmits ==
  ASSUME NEW c \in Clis, Unasked(c), NEW d \in Clis
  PROVE  Admits(d)
  BY DEF Unasked, Admits

LEMMA StructureCleans ==
  ASSUME AccessInv, LeftInv, HelpEnablesNobody, NEW c \in Clis,
         \/ Typed(c) \/ Waited(c) \/ BeginLoop(c) \/ EndLoop(c)
         \/ cli' = [cli EXCEPT ![c] = Blank] /\ UNCHANGED <<known, left, admitted, promoted>>
  PROVE  LeftInv' /\ \A d \in Clis : Admits(d)
<1>1. CASE Typed(c)
  <2>1. /\ LeftInv'
        /\ Admits(c) \/ Unasked(c)
        /\ \A d \in Clis : d # c => admitted'[d] = admitted[d] /\ promoted'[d] = promoted[d]
    BY <1>1, TypedCleans
  <2>2. \A d \in Clis : d # c => Admits(d)
    BY <2>1 DEF Admits
  <2> QED
    BY <2>1, <2>2, UnaskedAdmits
<1>2. CASE EndLoop(c)
  <2>1. Unasked(c)
    BY <1>2 DEF EndLoop, Unasked
  <2> QED
    BY <1>2, <2>1, EndCleans, UnaskedAdmits
<1>3. CASE Waited(c)
  <2>1. CASE Second(c)
    <3>1. Unasked(c) /\ LeftInv'
      BY <2>1 DEF Second, Unasked, LeftInv, Clean
    <3> QED
      BY <3>1, UnaskedAdmits
  <2> QED
    BY <1>2, <1>3, <2>1 DEF Waited, TimeOut
<1>4. CASE BeginLoop(c)
  <2>1. Unasked(c)
    BY <1>4 DEF BeginLoop, Unasked, AccessInv
  <2> QED
    BY <1>4, <2>1, BeginCleans, UnaskedAdmits
<1>5. CASE cli' = [cli EXCEPT ![c] = Blank] /\ UNCHANGED <<known, left, admitted, promoted>>
  <2>1. Unasked(c)
    BY <1>5 DEF Unasked
  <2>2. Blank.state = "none"
    BY DEF Blank
  <2> HIDE DEF Blank
  <2>3. LeftInv'
    BY <1>5, <2>2, OneCleans
  <2> QED
    BY <2>1, <2>3, UnaskedAdmits
<1> QED
  BY <1>1, <1>2, <1>3, <1>4, <1>5

LEMMA AdmitStep ==
  ServerInv /\ AccessInv /\ LeftInv /\ HelpEnablesNobody /\ [Next]_vars
    => LeftInv' /\ [\A c \in Clis : Admits(c)]_vars
<1> SUFFICES ASSUME ServerInv, AccessInv, LeftInv, HelpEnablesNobody, [Next]_vars
             PROVE  LeftInv' /\ [\A c \in Clis : Admits(c)]_vars
  OBVIOUS
<1>1. CASE UNCHANGED sessionVars
  <2>1. LeftInv'
    BY <1>1 DEF sessionVars, LeftInv, Clean
  <2>2. \A c \in Clis : Admits(c)
    BY <1>1 DEF sessionVars, Admits
  <2> QED
    BY <2>1, <2>2
<1>2. ASSUME NEW t \in Clis, Begin(t) \/ Serve(t) \/ Wait(t) \/ Leave(t) \/ Done(t)
      PROVE  LeftInv' /\ \A c \in Clis : Admits(c)
  <2> DEFINE c == own[t].cli
  <2>1. c \in Clis
    BY <1>2 DEF ServerInv, Begin, Serve, Wait, Leave, Done, Goto
  <2>2. \/ Typed(c) \/ Waited(c) \/ BeginLoop(c) \/ EndLoop(c)
        \/ cli' = [cli EXCEPT ![c] = Blank] /\ UNCHANGED <<known, left, admitted, promoted>>
    BY <1>2 DEF Begin, Serve, Wait, Leave, Done
  <2> HIDE DEF c
  <2> QED
    BY <2>1, <2>2, StructureCleans
<1> QED
  BY <1>1, <1>2 DEF Next, Listen, Start, Run, Accept, SetCli, SetSocket, StartTask, FailTask,
                    ReadCli, ReadSocket, Fclose, Close, vars

(* Who gives a right password gets what it is for, whatever was typed      *)
(* before and on however many connections, as long as no line that ends in *)
(* a question mark runs enable: that would leave its text before the       *)
(* password (base_cli_lib.c:1517, 1577).                                   *)
THEOREM PasswordsAdmit == Spec /\ []HelpEnablesNobody => RightPasswordAdmits
<1>1. Init => ServerInv /\ AccessInv /\ LeftInv
  <2>1. Init => LeftInv
    BY DEF Init, InitSessions, LeftInv, Clean, Blank
  <2> QED
    BY <2>1, ServerInitial, AccessInitial
<1>2. ServerInv /\ AccessInv /\ [Next]_vars => ServerInv' /\ AccessInv'
  BY ServerStep, AccessStep
<1> QED
  BY <1>1, <1>2, AdmitStep, PTL DEF Spec, RightPasswordAdmits

-----------------------------------------------------------------------------
(* The greatest of some bounded numbers.                                   *)
LEMMA GreatestOf ==
  ASSUME NEW S, NEW b \in Nat, S \subseteq 0 .. b, S # {}
  PROVE  Max(S) \in S /\ \A y \in S : y <= Max(S)
<1> DEFINE T == {n \in Nat : b - n \in S}
<1>1. T \in SUBSET Nat /\ T # {}
  <2>1. PICK x \in S : TRUE
    OBVIOUS
  <2>2. b - x \in Nat /\ b - (b - x) = x
    BY <2>1
  <2> QED
    BY <2>2
<1>2. PICK m \in T : \A y \in T : ~(<<y, m>> \in OpToRel(<, Nat))
  BY <1>1, NatLessThanWellFounded, WFMin
<1>3. \A y \in T : m <= y
  <2> TAKE y \in T
  <2>1. y \in Nat /\ m \in Nat
    OBVIOUS
  <2>2. ~(y < m)
    BY <1>2, <2>1 DEF OpToRel
  <2> QED
    BY <2>1, <2>2
<1>4. b - m \in S /\ \A y \in S : b - m >= y
  <2>1. \A y \in S : b - y \in T
    <3> TAKE y \in S
    <3>1. b - y \in Nat /\ b - (b - y) = y
      OBVIOUS
    <3> QED
      BY <3>1
  <2>2. m \in Nat /\ b - m \in S
    OBVIOUS
  <2> HIDE DEF T
  <2>3. \A y \in S : m <= b - y
    BY <1>3, <2>1
  <2>4. \A y \in S : b - m >= y
    <3> TAKE y \in S
    <3>1. y \in Nat
      OBVIOUS
    <3>2. m <= b - y
      BY <2>3
    <3> QED
      BY <2>2, <3>1, <3>2
  <2> QED
    BY <2>2, <2>4
<1> HIDE DEF T
<1>5. Max(S) \in S /\ \A y \in S : Max(S) >= y
  BY <1>4 DEF Max
<1>6. \A y \in S : y \in Int
  OBVIOUS
<1> QED
  BY <1>5, <1>6

(* What a number has, and each one after a number that has it, all have.   *)
LEMMA AllHave ==
  ASSUME NEW n \in Nat, NEW S, 0 \in S, \A k \in 0 .. (n - 1) : k \in S => k + 1 \in S
  PROVE  \A k \in 0 .. n : k \in S
<1> DEFINE T == {k \in 0 .. n : k \notin S}
<1>1. T = {}
  <2> SUFFICES ASSUME T # {} PROVE FALSE
    OBVIOUS
  <2>1. T \subseteq Nat
    OBVIOUS
  <2> HIDE DEF T
  <2>2. PICK m \in T : \A y \in T : ~(<<y, m>> \in OpToRel(<, Nat))
    BY <2>1, NatLessThanWellFounded, WFMin
  <2>3. m \in 0 .. n /\ m \notin S
    BY <2>2 DEF T
  <2>4. m # 0 /\ m - 1 \in 0 .. (n - 1) /\ (m - 1) + 1 = m
    BY <2>3
  <2>5. m - 1 \in T
    <3>1. m - 1 \notin S
      BY <2>3, <2>4
    <3> QED
      BY <2>3, <2>4, <3>1 DEF T
  <2>6. <<m - 1, m>> \in OpToRel(<, Nat)
    BY <2>3, <2>4 DEF OpToRel
  <2> QED
    BY <2>2, <2>5, <2>6
<1> QED
  BY <1>1

(* Of numbers from zero on there is a least.                               *)
LEMMA LeastOf ==
  ASSUME NEW S, S \subseteq Nat, S # {}
  PROVE  Min(S) \in S /\ \A y \in S : Min(S) <= y
<1>1. PICK m \in S : \A y \in S : ~(<<y, m>> \in OpToRel(<, Nat))
  BY NatLessThanWellFounded, WFMin
<1>2. \A y \in S : m <= y
  <2> TAKE y \in S
  <2>1. y \in Nat /\ m \in Nat
    OBVIOUS
  <2>2. ~(y < m)
    BY <1>1, <2>1 DEF OpToRel
  <2> QED
    BY <2>1, <2>2
<1> QED
  BY <1>2 DEF Min

-----------------------------------------------------------------------------
(* The filters.  What is made step by step, each a function of what the    *)
(* one before made, is made by some function of the steps.                 *)
AreSteps(step, n, T) == step \in [1 .. n -> [T -> T]]

Makes(f, n, T, base, step) ==
  /\ f \in [0 .. n -> T]
  /\ \A k \in 0 .. n : f[k] = IF k = 0 THEN base ELSE step[k][f[k - 1]]

LEMMA StepsAre ==
  ASSUME NEW n \in Nat, NEW T, NEW base \in T, NEW step, AreSteps(step, n, T)
  PROVE  \E f : Makes(f, n, T, base, step)
<1> DEFINE At(g, k) == IF k = 0 THEN base ELSE step[k][g[k - 1]]
           S == {m \in 0 .. n : \E g \in [0 .. m -> T] : \A k \in 0 .. m : g[k] = At(g, k)}
<1>0. step \in [1 .. n -> [T -> T]]
  BY DEF AreSteps
<1>1. 0 \in S
  <2> DEFINE g == [k \in 0 .. 0 |-> base]
  <2>1. g \in [0 .. 0 -> T] /\ \A k \in 0 .. 0 : g[k] = At(g, k)
    OBVIOUS
  <2> HIDE DEF g, At
  <2> QED
    BY <2>1
<1>2. ASSUME NEW m \in 0 .. (n - 1), m \in S
      PROVE  m + 1 \in S
  <2>1. PICK g \in [0 .. m -> T] : \A k \in 0 .. m : g[k] = At(g, k)
    BY <1>2
  <2> DEFINE h == [k \in 0 .. (m + 1) |-> IF k = m + 1 THEN step[m + 1][g[m]] ELSE g[k]]
  <2>2. g[m] \in T /\ m + 1 \in 1 .. n /\ m + 1 \in 0 .. n
    OBVIOUS
  <2>3. step[m + 1] \in [T -> T]
    BY <1>0, <2>2
  <2>4. step[m + 1][g[m]] \in T
    BY <2>2, <2>3
  <2>5. h \in [0 .. (m + 1) -> T]
    BY <2>4
  <2>6. ASSUME NEW k \in 0 .. (m + 1) PROVE h[k] = At(h, k)
    <3>1. CASE k = m + 1
      <4>1. k # 0 /\ k - 1 = m /\ h[m] = g[m]
        BY <3>1
      <4> QED
        BY <3>1, <4>1
    <3>2. CASE k # m + 1
      <4>1. k \in 0 .. m /\ (k # 0 => k - 1 \in 0 .. m /\ k - 1 # m + 1 /\ k - 1 \in 0 .. (m + 1))
        BY <3>2
      <4>2. h[k] = g[k] /\ (k # 0 => h[k - 1] = g[k - 1])
        BY <3>2, <4>1
      <4> HIDE DEF h
      <4>3. At(h, k) = At(g, k)
        BY <4>2
      <4> QED
        BY <2>1, <4>1, <4>2, <4>3
    <3> QED
      BY <3>1, <3>2
  <2> HIDE DEF h, At
  <2> QED
    BY <2>2, <2>5, <2>6
<1>3. n \in S
  <2>1. \A m \in 0 .. (n - 1) : m \in S => m + 1 \in S
    BY <1>2
  <2>2. n \in 0 .. n
    OBVIOUS
  <2> HIDE DEF S
  <2> QED
    BY <1>1, <2>1, <2>2, AllHave
<1> QED
  BY <1>3 DEF Makes

(* What is said in order of some numbers is a list that grows by these.    *)
LEMMA InOrderIs ==
  ASSUME NEW some, NEW V, NEW said \in Seq(V)
  PROVE  /\ InOrder(some, said)[0] = <<>>
         /\ \A k \in 1 .. Len(said) :
              InOrder(some, said)[k] =
                IF k \in some THEN Append(InOrder(some, said)[k - 1], said[k])
                ELSE InOrder(some, said)[k - 1]
         /\ \A k \in 0 .. Len(said) : InOrder(some, said)[k] \in Seq(V)
<1> DEFINE n == Len(said)
           T == Seq(V)
           Grown(k, t) == IF k \in some THEN Append(t, said[k]) ELSE t
           step == [k \in 1 .. n |-> [t \in T |-> Grown(k, t)]]
<1>1. n \in Nat /\ <<>> \in T /\ \A k \in 1 .. n : said[k] \in V
  OBVIOUS
<1>2. \A k \in 1 .. n : \A t \in T : Grown(k, t) \in T
  BY <1>1
<1>3. AreSteps(step, n, T)
  BY <1>2 DEF AreSteps
<1> HIDE DEF n, T, Grown
<1>4. PICK f : Makes(f, n, T, <<>>, step)
  <2> HIDE DEF step
  <2> QED
    BY <1>1, <1>3, StepsAre
<1>5. \A k \in 0 .. n : f[k] = IF k = 0 THEN <<>> ELSE Grown(k, f[k - 1])
  <2> TAKE k \in 0 .. n
  <2>1. CASE k = 0
    BY <1>4, <2>1 DEF Makes
  <2>2. CASE k # 0
    <3>1. k \in 1 .. n /\ k - 1 \in 0 .. n
      BY <1>1, <2>2
    <3>2. step[k][f[k - 1]] = Grown(k, f[k - 1])
      BY <1>4, <3>1 DEF Makes
    <3> QED
      BY <1>4, <2>2, <3>2 DEF Makes
  <2> QED
    BY <2>1, <2>2
<1>6. f = [k \in 0 .. n |-> IF k = 0 THEN <<>> ELSE Grown(k, f[k - 1])]
  BY <1>4, <1>5 DEF Makes
<1> DEFINE list == CHOOSE g : g = [k \in 0 .. n |-> IF k = 0 THEN <<>> ELSE Grown(k, g[k - 1])]
<1>7. InOrder(some, said) = list
  BY DEF InOrder, n, Grown
<1>8. list = [k \in 0 .. n |-> IF k = 0 THEN <<>> ELSE Grown(k, list[k - 1])]
  BY <1>6
<1> HIDE DEF list
<1>9. \A k \in 0 .. n : list[k] = IF k = 0 THEN <<>> ELSE Grown(k, list[k - 1])
  BY <1>8
<1>10. list[0] = <<>> /\ \A k \in 1 .. n : list[k] = Grown(k, list[k - 1])
  BY <1>1, <1>9
<1>11. \A k \in 0 .. n : list[k] \in T
  <2> DEFINE S == {k \in 0 .. n : list[k] \in T}
  <2>1. 0 \in S
    BY <1>1, <1>10
  <2>2. ASSUME NEW k \in 0 .. (n - 1), k \in S PROVE k + 1 \in S
    <3>1. k + 1 \in 1 .. n /\ (k + 1) - 1 = k /\ k + 1 \in 0 .. n
      BY <1>1
    <3>2. list[k] \in T
      BY <2>2
    <3>3. list[k + 1] = Grown(k + 1, list[k])
      BY <1>10, <3>1
    <3> QED
      BY <1>2, <3>1, <3>2, <3>3
  <2>3. \A k \in 0 .. (n - 1) : k \in S => k + 1 \in S
    BY <2>2
  <2> HIDE DEF S
  <2>4. \A k \in 0 .. n : k \in S
    BY <1>1, <2>1, <2>3, AllHave
  <2> QED
    BY <2>4 DEF S
<1> QED
  BY <1>7, <1>10, <1>11 DEF n, T, Grown

(* The requests of a line that are set up, the filters they are, what an   *)
(* output shows.                                                           *)
Kinds == {"match", "range", "count"}

Wanted == [kind : Kinds, from : STRING, to : STRING, invert : BOOLEAN]

Filters == [asks : Wanted, matched : BOOLEAN, count : Nat]

Plain == [line : SUBSET STRING]

LEMMA AfterIs ==
  ASSUME NEW f \in Filters, NEW line
  PROVE  After(f, line) \in Filters /\ After(f, line).asks = f.asks
<1>1. f.asks \in Wanted /\ f.asks.kind \in Kinds /\ f.count \in Nat /\ f.matched \in BOOLEAN
  BY DEF Filters, Wanted
<1>2. CASE f.asks.kind = "match"
  BY <1>2 DEF After
<1>3. CASE f.asks.kind = "range"
  <2> DEFINE matched == Opened(f, line) /\ f.asks.to \notin line
  <2>1. After(f, line) = [f EXCEPT !.matched = matched]
    BY <1>3 DEF After
  <2>2. matched \in BOOLEAN
    OBVIOUS
  <2> HIDE DEF matched
  <2> QED
    BY <2>1, <2>2 DEF Filters
<1>4. CASE f.asks.kind = "count"
  <2>1. After(f, line) = [f EXCEPT !.count = @ + (IF line = {} THEN 0 ELSE 1)]
    BY <1>4 DEF After
  <2> QED
    BY <1>1, <2>1 DEF Filters
<1> QED
  BY <1>1, <1>2, <1>3, <1>4 DEF Kinds

LEMMA PrintingIs ==
  ASSUME NEW m \in Nat, NEW chain \in [1 .. m -> Filters], NEW output \in Seq(SUBSET STRING)
  PROVE  /\ Printing(chain, output)[0] = [chain |-> chain, shown |-> <<>>]
         /\ \A n \in 1 .. Len(output) :
              Printing(chain, output)[n] = PrintLine(Printing(chain, output)[n - 1], output[n])
<1> DEFINE N == Len(output)
           T == [chain : [1 .. m -> Filters], shown : Seq(Plain)]
           start == [chain |-> chain, shown |-> <<>>]
           step == [n \in 1 .. N |-> [t \in T |-> PrintLine(t, output[n])]]
<1>1. N \in Nat /\ start \in T /\ \A n \in 1 .. N : output[n] \in SUBSET STRING
  OBVIOUS
<1>2. ASSUME NEW t \in T, NEW line \in SUBSET STRING
      PROVE  PrintLine(t, line) \in T
  <2> DEFINE to == [k \in DOMAIN t.chain |-> IF Reaches(t.chain, line, k) THEN After(t.chain[k], line)
                                             ELSE t.chain[k]]
             all == Reaches(t.chain, line, Len(t.chain) + 1)
             shown == IF all THEN Append(t.shown, [line |-> line]) ELSE t.shown
  <2>1. t.chain \in [1 .. m -> Filters] /\ t.shown \in Seq(Plain)
    OBVIOUS
  <2>2. to \in [1 .. m -> Filters]
    <3>1. \A k \in 1 .. m : After(t.chain[k], line) \in Filters /\ t.chain[k] \in Filters
      BY <2>1, AfterIs
    <3> QED
      BY <2>1, <3>1
  <2>3. shown \in Seq(Plain)
    <3> HIDE DEF all
    <3>1. [line |-> line] \in Plain
      BY DEF Plain
    <3> QED
      BY <2>1, <3>1
  <2>4. PrintLine(t, line) = [chain |-> to, shown |-> shown]
    BY DEF PrintLine
  <2> HIDE DEF to, shown
  <2> QED
    BY <2>2, <2>3, <2>4
<1>3. AreSteps(step, N, T)
  <2>1. \A n \in 1 .. N : \A t \in T : PrintLine(t, output[n]) \in T
    BY <1>1, <1>2
  <2> HIDE DEF T, N
  <2> QED
    BY <2>1 DEF AreSteps
<1> HIDE DEF N, T, start
<1>4. PICK f : Makes(f, N, T, start, step)
  <2> HIDE DEF step
  <2> QED
    BY <1>1, <1>3, StepsAre
<1> DEFINE At(g, n) == IF n = 0 THEN start ELSE PrintLine(g[n - 1], output[n])
<1>5. \A n \in 0 .. N : f[n] = At(f, n)
  <2> TAKE n \in 0 .. N
  <2>1. CASE n = 0
    BY <1>4, <2>1 DEF Makes
  <2>2. CASE n # 0
    <3>1. n \in 1 .. N /\ n - 1 \in 0 .. N
      BY <1>1, <2>2
    <3>2. step[n][f[n - 1]] = PrintLine(f[n - 1], output[n])
      BY <1>4, <3>1 DEF Makes
    <3> QED
      BY <1>4, <2>2, <3>2 DEF Makes
  <2> QED
    BY <2>1, <2>2
<1> DEFINE printed == CHOOSE g : g = [n \in 0 .. N |-> At(g, n)]
<1>6. Printing(chain, output) = printed
  BY DEF Printing, N, start
<1>7. f = [n \in 0 .. N |-> At(f, n)]
  <2> HIDE DEF At
  <2> QED
    BY <1>4, <1>5 DEF Makes
<1> HIDE DEF At
<1>8. printed = [n \in 0 .. N |-> At(printed, n)]
  BY <1>7
<1> HIDE DEF printed
<1>9. \A n \in 0 .. N : printed[n] = At(printed, n)
  BY <1>8
<1>10. printed[0] = start /\ \A n \in 1 .. N : printed[n] = PrintLine(printed[n - 1], output[n])
  BY <1>1, <1>9 DEF At
<1> QED
  BY <1>6, <1>10 DEF N, start

LEMMA PastIs ==
  ASSUME NEW requests \in Seq(Wanted), NEW output \in Seq(SUBSET STRING)
  PROVE  /\ Past(requests, output)[0] = 1 .. Len(output)
         /\ \A k \in 1 .. Len(requests) :
              Past(requests, output)[k] = Kept(requests[k], Past(requests, output)[k - 1], output)
         /\ \A k \in 0 .. Len(requests) : Past(requests, output)[k] \subseteq 1 .. Len(output)
<1> DEFINE m == Len(requests)
           D == DOMAIN output
           T == SUBSET D
           step == [k \in 1 .. m |-> [t \in T |-> Kept(requests[k], t, output)]]
<1>1. m \in Nat /\ D \in T /\ D = 1 .. Len(output) /\ \A k \in 1 .. m : requests[k].kind \in Kinds
  <2>1. m \in Nat /\ D \in T /\ D = 1 .. Len(output)
    OBVIOUS
  <2>2. \A k \in 1 .. m : requests[k] \in Wanted
    OBVIOUS
  <2> QED
    BY <2>1, <2>2 DEF Wanted
<1>2. \A k \in 1 .. m : \A t \in T : Kept(requests[k], t, output) \subseteq t
  BY <1>1 DEF Kept, Kinds
<1>3. AreSteps(step, m, T)
  <2> HIDE DEF m, D
  <2>1. \A k \in 1 .. m : \A t \in T : Kept(requests[k], t, output) \in T
    BY <1>2
  <2> HIDE DEF T
  <2> QED
    BY <2>1 DEF AreSteps
<1> HIDE DEF m, T, D
<1>4. PICK f : Makes(f, m, T, D, step)
  <2> HIDE DEF step
  <2> QED
    BY <1>1, <1>3, StepsAre
<1> DEFINE At(g, k) == IF k = 0 THEN D ELSE Kept(requests[k], g[k - 1], output)
<1>5. \A k \in 0 .. m : f[k] = At(f, k)
  <2> TAKE k \in 0 .. m
  <2>1. CASE k = 0
    BY <1>4, <2>1 DEF Makes
  <2>2. CASE k # 0
    <3>1. k \in 1 .. m /\ k - 1 \in 0 .. m
      BY <1>1, <2>2
    <3>2. step[k][f[k - 1]] = Kept(requests[k], f[k - 1], output)
      BY <1>4, <3>1 DEF Makes
    <3> QED
      BY <1>4, <2>2, <3>2 DEF Makes
  <2> QED
    BY <2>1, <2>2
<1> DEFINE past == CHOOSE g : g = [k \in 0 .. m |-> At(g, k)]
<1>6. Past(requests, output) = past
  BY DEF Past, m, D
<1>7. f = [k \in 0 .. m |-> At(f, k)]
  <2> HIDE DEF At
  <2> QED
    BY <1>4, <1>5 DEF Makes
<1> HIDE DEF At
<1>8. past = [k \in 0 .. m |-> At(past, k)]
  BY <1>7
<1> HIDE DEF past
<1>9. \A k \in 0 .. m : past[k] = At(past, k)
  BY <1>8
<1>10. past[0] = D /\ \A k \in 1 .. m : past[k] = Kept(requests[k], past[k - 1], output)
  BY <1>1, <1>9 DEF At
<1>11. \A k \in 0 .. m : past[k] \in T
  <2> DEFINE S == {k \in 0 .. m : past[k] \in T}
  <2>1. 0 \in S
    BY <1>1, <1>10
  <2>2. ASSUME NEW k \in 0 .. (m - 1), k \in S PROVE k + 1 \in S
    <3>1. k + 1 \in 1 .. m /\ (k + 1) - 1 = k /\ k + 1 \in 0 .. m
      BY <1>1
    <3>2. past[k] \in T
      BY <2>2
    <3>3. past[k + 1] = Kept(requests[k + 1], past[k], output)
      BY <1>10, <3>1
    <3> QED
      BY <1>2, <3>1, <3>2, <3>3 DEF T
  <2>3. \A k \in 0 .. (m - 1) : k \in S => k + 1 \in S
    BY <2>2
  <2> HIDE DEF S
  <2>4. \A k \in 0 .. m : k \in S
    BY <1>1, <2>1, <2>3, AllHave
  <2> QED
    BY <2>4 DEF S
<1> QED
  BY <1>1, <1>6, <1>10, <1>11 DEF m, T, D

(* What a filter is after so many lines, of those that come to it.         *)
Opening(r, come, output, n) ==
  /\ r.kind = "range"
  /\ \E j \in come : /\ j <= n /\ r.from \in output[j]
                     /\ \A i \in come \cap j .. n : r.to \notin output[i]

Stage(r, come, output, n) ==
  [asks |-> r, matched |-> Opening(r, come, output, n),
   count |-> Total(r, come \cap 1 .. n, output)]

LEMMA TotalIs ==
  ASSUME NEW r, NEW come, NEW output, NEW n \in Nat
  PROVE  /\ Total(r, come \cap 1 .. n, output) \in Nat
         /\ Total(r, come \cap 1 .. 0, output) = 0
         /\ n # 0 =>
              Total(r, come \cap 1 .. n, output) =
              Total(r, come \cap 1 .. (n - 1), output)
                + IF r.kind = "count" /\ n \in come /\ output[n] # {} THEN 1 ELSE 0
<1> DEFINE C(k) == {i \in come \cap 1 .. k : output[i] # {}}
<1>1. \A k \in Nat : IsFiniteSet(C(k)) /\ Cardinality(C(k)) \in Nat
  <2> TAKE k \in Nat
  <2>1. IsFiniteSet(1 .. k) /\ C(k) \in SUBSET (1 .. k)
    BY FS_Interval
  <2> HIDE DEF C
  <2>2. IsFiniteSet(C(k))
    BY <2>1, FS_Subset
  <2> QED
    BY <2>2, FS_CardinalityType
<1>2. C(0) = {}
  OBVIOUS
<1>3. n # 0 => C(n) = IF n \in come /\ output[n] # {} THEN C(n - 1) \cup {n} ELSE C(n - 1)
  OBVIOUS
<1>4. (n # 0 => n \notin C(n - 1) /\ n - 1 \in Nat) /\ 0 \in Nat
  OBVIOUS
<1>5. \A k \in Nat : Total(r, come \cap 1 .. k, output) = IF r.kind = "count" THEN Cardinality(C(k)) ELSE 0
  BY DEF Total
<1> HIDE DEF C
<1>6. n # 0 => Cardinality(C(n - 1) \cup {n}) = Cardinality(C(n - 1)) + 1
  BY <1>1, <1>4, FS_AddElement
<1>7. Cardinality(C(0)) = 0
  BY <1>2, FS_EmptySet
<1>8. n # 0 =>
        Cardinality(C(n)) = Cardinality(C(n - 1)) + IF n \in come /\ output[n] # {} THEN 1 ELSE 0
  <2>1. CASE n = 0
    BY <2>1
  <2>2. CASE n # 0 /\ n \in come /\ output[n] # {}
    BY <1>3, <1>6, <2>2
  <2>3. CASE n # 0 /\ ~(n \in come /\ output[n] # {})
    <3>1. C(n) = C(n - 1) /\ Cardinality(C(n - 1)) \in Nat
      BY <1>1, <1>3, <1>4, <2>3
    <3> QED
      BY <2>3, <3>1
  <2> QED
    BY <2>1, <2>2, <2>3
<1> QED
  BY <1>1, <1>4, <1>5, <1>7, <1>8

(* One filter and one line.                                                *)
LEMMA StageIs ==
  ASSUME NEW r \in Wanted, NEW output \in Seq(SUBSET STRING),
         NEW come, come \subseteq 1 .. Len(output)
  PROVE  /\ Stage(r, come, output, 0) = Fresh(r)
         /\ \A n \in 1 .. Len(output) :
              /\ n \in come =>
                   /\ Passes(Stage(r, come, output, n - 1), output[n]) <=> n \in Kept(r, come, output)
                   /\ Stage(r, come, output, n) = After(Stage(r, come, output, n - 1), output[n])
              /\ n \notin come => Stage(r, come, output, n) = Stage(r, come, output, n - 1)
<1>1. r.kind \in Kinds /\ Len(output) \in Nat
  BY DEF Wanted
<1>2. Stage(r, come, output, 0) = Fresh(r)
  <2>1. Total(r, come \cap 1 .. 0, output) = 0
    BY TotalIs
  <2>2. Opening(r, come, output, 0) = FALSE
    <3>1. \A j \in come : ~(j <= 0)
      BY <1>1
    <3> QED
      BY <3>1 DEF Opening
  <2> QED
    BY <2>1, <2>2 DEF Stage, Fresh
<1>3. ASSUME NEW n \in 1 .. Len(output), n \notin come
      PROVE  Stage(r, come, output, n) = Stage(r, come, output, n - 1)
  <2>1. Total(r, come \cap 1 .. n, output) = Total(r, come \cap 1 .. (n - 1), output)
    <3>1. come \cap 1 .. n = come \cap 1 .. (n - 1)
      BY <1>1, <1>3
    <3> QED
      BY <3>1
  <2>2. Opening(r, come, output, n) = Opening(r, come, output, n - 1)
    <3>1. \A j \in come : (j <= n <=> j <= n - 1) /\ come \cap j .. n = come \cap j .. (n - 1)
      BY <1>1, <1>3
    <3> QED
      BY <3>1 DEF Opening
  <2> QED
    BY <2>1, <2>2 DEF Stage
<1>4. ASSUME NEW n \in 1 .. Len(output), n \in come
      PROVE  /\ Passes(Stage(r, come, output, n - 1), output[n]) <=> n \in Kept(r, come, output)
             /\ Stage(r, come, output, n) = After(Stage(r, come, output, n - 1), output[n])
  <2> DEFINE f == Stage(r, come, output, n - 1)
             line == output[n]
  <2>1. f.asks = r /\ f.matched = Opening(r, come, output, n - 1)
        /\ f.count = Total(r, come \cap 1 .. (n - 1), output)
    BY DEF Stage
  <2>2. n \in Nat \ {0}
    BY <1>1
  <2>3. /\ Total(r, come \cap 1 .. n, output) =
             f.count + IF r.kind = "count" /\ line # {} THEN 1 ELSE 0
        /\ Total(r, come \cap 1 .. n, output) \in Nat
        /\ f.count \in Nat
    <3>1. Total(r, come \cap 1 .. (n - 1), output) \in Nat
      <4>1. n - 1 \in Nat
        BY <2>2
      <4> QED
        BY <4>1, TotalIs
    <3>2. n \in Nat /\ n # 0 /\ n \in come
      BY <1>4, <2>2
    <3>3. Total(r, come \cap 1 .. n, output) =
            Total(r, come \cap 1 .. (n - 1), output)
              + IF r.kind = "count" /\ n \in come /\ output[n] # {} THEN 1 ELSE 0
      BY <3>2, TotalIs
    <3>4. Total(r, come \cap 1 .. n, output) \in Nat
      BY <3>2, TotalIs
    <3> QED
      BY <2>1, <3>1, <3>2, <3>3, <3>4
  <2> HIDE DEF f
  <2>4. CASE r.kind = "match"
    <3>1. Passes(f, line) <=> n \in Kept(r, come, output)
      BY <1>4, <2>1, <2>4 DEF Passes, Kept
    <3>2. After(f, line) = f
      BY <2>1, <2>4 DEF After
    <3>3. Stage(r, come, output, n) = Stage(r, come, output, n - 1)
      <4>1. Opening(r, come, output, n) = FALSE /\ Opening(r, come, output, n - 1) = FALSE
        BY <2>4 DEF Opening
      <4>2. Total(r, come \cap 1 .. n, output) = Total(r, come \cap 1 .. (n - 1), output)
        BY <2>1, <2>3, <2>4
      <4> QED
        BY <4>1, <4>2 DEF Stage
    <3> QED
      BY <3>1, <3>2, <3>3 DEF f
  <2>5. CASE r.kind = "count"
    <3>1. Passes(f, line) <=> n \in Kept(r, come, output)
      BY <2>1, <2>5 DEF Passes, Kept
    <3>2. After(f, line) = [f EXCEPT !.count = @ + (IF line = {} THEN 0 ELSE 1)]
      BY <2>1, <2>5 DEF After
    <3>3. Total(r, come \cap 1 .. n, output) = f.count + (IF line = {} THEN 0 ELSE 1)
      BY <2>3, <2>5
    <3>4. Opening(r, come, output, n) = FALSE /\ Opening(r, come, output, n - 1) = FALSE
      BY <2>5 DEF Opening
    <3>5. Stage(r, come, output, n) = After(f, line)
      BY <3>2, <3>3, <3>4 DEF Stage, f
    <3> QED
      BY <3>1, <3>5 DEF f
  <2>6. CASE r.kind = "range"
    <3>1. Opened(f, line) <=> \E j \in come : /\ j <= n /\ r.from \in output[j]
                                              /\ \A i \in come \cap j .. (n - 1) : r.to \notin output[i]
      <4>1. \A j \in come : j <= n <=> j <= n - 1 \/ j = n
        BY <1>1
      <4>2. n .. (n - 1) = {}
        BY <1>1
      <4> QED
        BY <1>4, <2>1, <2>6, <4>1, <4>2 DEF Opened, Opening
    <3>2. Passes(f, line) <=> Opened(f, line)
      BY <2>1, <2>6 DEF Passes
    <3>3. n \in Kept(r, come, output) <=> Opened(f, line)
      BY <1>4, <2>6, <3>1 DEF Kept
    <3>4. Opening(r, come, output, n) = (Opened(f, line) /\ r.to \notin line)
      <4>1. \A j \in come : j <= n => come \cap j .. n = (come \cap j .. (n - 1)) \cup {n}
        BY <1>1, <1>4
      <4> QED
        BY <2>6, <3>1, <4>1 DEF Opening
    <3>5. Total(r, come \cap 1 .. n, output) = f.count
      BY <2>3, <2>6
    <3>6. After(f, line) = [f EXCEPT !.matched = Opened(f, line) /\ r.to \notin line]
      BY <2>1, <2>6 DEF After
    <3>7. Stage(r, come, output, n) = After(f, line)
      <4> DEFINE matched == Opened(f, line) /\ r.to \notin line
      <4>1. Stage(r, come, output, n) = [asks |-> r, matched |-> matched, count |-> f.count]
        BY <3>4, <3>5 DEF Stage
      <4>2. f = [asks |-> r, matched |-> f.matched, count |-> f.count]
        BY DEF Stage, f
      <4>3. After(f, line) = [f EXCEPT !.matched = matched]
        BY <3>6
      <4> HIDE DEF matched
      <4> QED
        BY <4>1, <4>2, <4>3
    <3> QED
      BY <3>2, <3>3, <3>7 DEF f
  <2> QED
    BY <1>1, <2>4, <2>5, <2>6 DEF Kinds
<1> QED
  BY <1>2, <1>3, <1>4

(* A line reaches a filter that it comes to in what is asked, and no other. *)
LEMMA ReachesIs ==
  ASSUME NEW requests \in Seq(Wanted), NEW output \in Seq(SUBSET STRING),
         NEW n \in 1 .. Len(output), NEW chain,
         \A k \in 1 .. Len(requests) :
           chain[k] = Stage(requests[k], Past(requests, output)[k - 1], output, n - 1)
  PROVE  \A k \in 0 .. Len(requests) :
           Reaches(chain, output[n], k + 1) <=> n \in Past(requests, output)[k]
<1> DEFINE m == Len(requests)
           past == Past(requests, output)
           S == {k \in 0 .. m : Reaches(chain, output[n], k + 1) <=> n \in past[k]}
<1>1. m \in Nat /\ Len(output) \in Nat
  OBVIOUS
<1>2. /\ past[0] = 1 .. Len(output)
      /\ \A k \in 1 .. m : past[k] = Kept(requests[k], past[k - 1], output)
      /\ \A k \in 0 .. m : past[k] \subseteq 1 .. Len(output)
  BY PastIs
<1>3. \A k \in 1 .. m : chain[k] = Stage(requests[k], past[k - 1], output, n - 1) /\ requests[k] \in Wanted
  OBVIOUS
<1> HIDE DEF m, past
<1>4. 0 \in S
  <2>1. Reaches(chain, output[n], 0 + 1)
    BY DEF Reaches
  <2> QED
    BY <1>1, <1>2, <2>1
<1>5. ASSUME NEW k \in 0 .. (m - 1), k \in S PROVE k + 1 \in S
  <2>1. k \in Nat /\ k + 1 \in 1 .. m /\ (k + 1) - 1 = k /\ k + 1 \in 0 .. m /\ k \in 0 .. m
    BY <1>1
  <2>2. Reaches(chain, output[n], k + 1) <=> n \in past[k]
    BY <1>5
  <2>3. Reaches(chain, output[n], (k + 1) + 1)
          <=> Reaches(chain, output[n], k + 1) /\ Passes(chain[k + 1], output[n])
    <3>1. 1 .. (((k + 1) + 1) - 1) = 1 .. ((k + 1) - 1) \cup {k + 1}
      BY <2>1
    <3> QED
      BY <3>1 DEF Reaches
  <2>4. chain[k + 1] = Stage(requests[k + 1], past[k], output, n - 1) /\ requests[k + 1] \in Wanted
    BY <1>3, <2>1
  <2>5. past[k] \subseteq 1 .. Len(output)
    BY <1>2, <2>1
  <2>6. n \in past[k] =>
          (Passes(chain[k + 1], output[n]) <=> n \in Kept(requests[k + 1], past[k], output))
    BY <2>4, <2>5, StageIs
  <2>7. past[k + 1] = Kept(requests[k + 1], past[k], output)
    BY <1>2, <2>1
  <2>8. past[k + 1] \subseteq past[k]
    <3>1. requests[k + 1].kind \in Kinds
      BY <2>4 DEF Wanted
    <3> QED
      BY <2>7, <3>1 DEF Kept, Kinds
  <2>9. Reaches(chain, output[n], (k + 1) + 1) <=> n \in past[k + 1]
    BY <2>2, <2>3, <2>6, <2>7, <2>8
  <2> QED
    BY <2>1, <2>9
<1>6. \A k \in 0 .. m : k \in S
  <2>1. \A k \in 0 .. (m - 1) : k \in S => k + 1 \in S
    BY <1>5
  <2> HIDE DEF S
  <2> QED
    BY <1>1, <1>4, <2>1, AllHave
<1> QED
  BY <1>6 DEF m, past

(* What a chain makes of an output, line by line, is what is asked of it.  *)
LEMMA ShownIsAsked ==
  ASSUME NEW requests \in Seq(Wanted), NEW output \in Seq(SUBSET STRING)
  PROVE  Shown([k \in 1 .. Len(requests) |-> Fresh(requests[k])], output) = Asked(requests, output)
<1> DEFINE m == Len(requests)
           N == Len(output)
           fresh == [k \in 1 .. m |-> Fresh(requests[k])]
           past == Past(requests, output)
           marked == [n \in DOMAIN output |-> [line |-> output[n]]]
           list == InOrder(past[m], marked)
           stages(n) == [k \in 1 .. m |-> Stage(requests[k], past[k - 1], output, n)]
           printed == Printing(fresh, output)
           S == {n \in 0 .. N : printed[n] = [chain |-> stages(n), shown |-> list[n]]}
<1>1. m \in Nat /\ N \in Nat /\ DOMAIN output = 1 .. N /\ \A k \in 1 .. m : requests[k] \in Wanted
  OBVIOUS
<1>2. /\ past[0] = 1 .. N
      /\ \A k \in 1 .. m : past[k] = Kept(requests[k], past[k - 1], output)
      /\ \A k \in 0 .. m : past[k] \subseteq 1 .. N
  BY PastIs
<1>3. /\ printed[0] = [chain |-> fresh, shown |-> <<>>]
      /\ \A n \in 1 .. N : printed[n] = PrintLine(printed[n - 1], output[n])
  <2>1. \A k \in 1 .. m : Fresh(requests[k]) \in Filters
    BY <1>1 DEF Fresh, Filters
  <2>2. fresh \in [1 .. m -> Filters]
    BY <2>1
  <2> HIDE DEF fresh
  <2> QED
    BY <1>1, <2>2, PrintingIs
<1>4. /\ list[0] = <<>>
      /\ \A n \in 1 .. N : list[n] = IF n \in past[m] THEN Append(list[n - 1], [line |-> output[n]])
                                     ELSE list[n - 1]
  <2> DEFINE V == {[line |-> output[n]] : n \in 1 .. N}
  <2>1. marked \in Seq(V) /\ Len(marked) = N
    BY <1>1
  <2>2. \A n \in 1 .. N : marked[n] = [line |-> output[n]]
    BY <1>1
  <2> HIDE DEF V, marked, N, past
  <2> QED
    BY <2>1, <2>2, InOrderIs
<1> HIDE DEF fresh, past, printed, list
<1>5. \A k \in 1 .. m : \A n \in 0 .. N :
        /\ past[k - 1] \subseteq 1 .. N
        /\ Stage(requests[k], past[k - 1], output, 0) = Fresh(requests[k])
        /\ n # 0 /\ n \in past[k - 1] =>
             Stage(requests[k], past[k - 1], output, n) =
               After(Stage(requests[k], past[k - 1], output, n - 1), output[n])
        /\ n # 0 /\ n \notin past[k - 1] =>
             Stage(requests[k], past[k - 1], output, n) = Stage(requests[k], past[k - 1], output, n - 1)
  <2> TAKE k \in 1 .. m
  <2> TAKE n \in 0 .. N
  <2>1. k - 1 \in 0 .. m /\ requests[k] \in Wanted /\ (n # 0 => n \in 1 .. N)
    BY <1>1
  <2>2. past[k - 1] \subseteq 1 .. Len(output)
    BY <1>2, <2>1
  <2> HIDE DEF m
  <2> QED
    BY <2>1, <2>2, StageIs
<1>6. 0 \in S
  <2>1. stages(0) = fresh
    BY <1>1, <1>5 DEF fresh
  <2> HIDE DEF stages
  <2> QED
    BY <1>1, <1>3, <1>4, <2>1
<1>7. ASSUME NEW i \in 0 .. (N - 1), i \in S PROVE i + 1 \in S
  <2>1. i + 1 \in 1 .. N /\ (i + 1) - 1 = i /\ i + 1 \in 0 .. N /\ i + 1 # 0
    BY <1>1
  <2> DEFINE n == i + 1
             line == output[n]
             chain == stages(i)
  <2>2. printed[i] = [chain |-> chain, shown |-> list[i]]
    BY <1>7
  <2>3. printed[n] = PrintLine(printed[i], line)
    BY <1>3, <2>1
  <2>4. \A k \in 1 .. m : chain[k] = Stage(requests[k], past[k - 1], output, i)
    OBVIOUS
  <2>5. DOMAIN chain = 1 .. m /\ Len(chain) = m
    BY <1>1
  <2>6. \A k \in 0 .. m : Reaches(chain, line, k + 1) <=> n \in past[k]
    <3> HIDE DEF chain
    <3> QED
      BY <2>1, <2>4, ReachesIs DEF past
  <2>7. \A k \in 1 .. m : Reaches(chain, line, k) <=> n \in past[k - 1]
    <3> TAKE k \in 1 .. m
    <3>1. k - 1 \in 0 .. m /\ (k - 1) + 1 = k
      BY <1>1
    <3> HIDE DEF chain, m, n
    <3> QED
      BY <2>6, <3>1
  <2>8. stages(n) = [k \in DOMAIN chain |-> IF Reaches(chain, line, k) THEN After(chain[k], line)
                                            ELSE chain[k]]
    <3>1. \A k \in 1 .. m :
            stages(n)[k] = IF Reaches(chain, line, k) THEN After(chain[k], line) ELSE chain[k]
      <4> TAKE k \in 1 .. m
      <4>1. /\ n \in past[k - 1] =>
                 Stage(requests[k], past[k - 1], output, n) =
                   After(Stage(requests[k], past[k - 1], output, i), line)
            /\ n \notin past[k - 1] =>
                 Stage(requests[k], past[k - 1], output, n) = Stage(requests[k], past[k - 1], output, i)
        BY <1>5, <2>1
      <4>2. stages(n)[k] = Stage(requests[k], past[k - 1], output, n)
        OBVIOUS
      <4> HIDE DEF chain, stages, line
      <4> QED
        BY <2>4, <2>7, <4>1, <4>2
    <3>2. stages(n) = [k \in 1 .. m |-> stages(n)[k]]
      OBVIOUS
    <3> HIDE DEF stages, chain, line, n, m
    <3> QED
      BY <2>5, <3>1, <3>2
  <2>9. list[n] = IF Reaches(chain, line, Len(chain) + 1) THEN Append(list[i], [line |-> line]) ELSE list[i]
    <3>1. m \in 0 .. m
      BY <1>1
    <3>2. Reaches(chain, line, m + 1) <=> n \in past[m]
      BY <2>6, <3>1
    <3>3. list[n] = IF n \in past[m] THEN Append(list[i], [line |-> line]) ELSE list[i]
      BY <1>4, <2>1
    <3> HIDE DEF chain, m, n, line
    <3> QED
      BY <2>5, <3>2, <3>3
  <2>10. PrintLine(printed[i], line) = [chain |-> stages(n), shown |-> list[n]]
    <3> HIDE DEF stages, chain, line, n
    <3> QED
      BY <2>2, <2>8, <2>9 DEF PrintLine
  <2>11. printed[n] = [chain |-> stages(n), shown |-> list[n]]
    BY <2>3, <2>10
  <2> HIDE DEF stages
  <2> QED
    BY <2>1, <2>11
<1>8. N \in S
  <2>1. \A i \in 0 .. (N - 1) : i \in S => i + 1 \in S
    BY <1>7
  <2>2. N \in 0 .. N
    BY <1>1
  <2> HIDE DEF S, N
  <2> QED
    BY <1>1, <1>6, <2>1, <2>2, AllHave
<1>9. Counts(stages(N)) =
        InOrder({k \in DOMAIN requests : requests[k].kind = "count"},
                [k \in DOMAIN requests |-> [count |-> Total(requests[k], past[k - 1], output)]])[m]
  <2> DEFINE chain == stages(N)
  <2>1. DOMAIN chain = 1 .. m /\ Len(chain) = m /\ DOMAIN requests = 1 .. m
    BY <1>1
  <2>2. \A k \in 1 .. m : chain[k].asks = requests[k]
                          /\ chain[k].count = Total(requests[k], past[k - 1], output)
    <3> TAKE k \in 1 .. m
    <3>1. past[k - 1] \cap 1 .. N = past[k - 1]
      <4>1. k - 1 \in 0 .. m
        BY <1>1
      <4> QED
        BY <1>2, <4>1
    <3>2. chain[k] = Stage(requests[k], past[k - 1], output, N)
      OBVIOUS
    <3> HIDE DEF chain, N
    <3>3. Total(requests[k], past[k - 1] \cap 1 .. N, output) = Total(requests[k], past[k - 1], output)
      BY <3>1
    <3>4. /\ chain[k].asks = requests[k]
          /\ chain[k].count = Total(requests[k], past[k - 1] \cap 1 .. N, output)
      BY <3>2 DEF Stage
    <3> QED
      BY <3>3, <3>4
  <2> HIDE DEF chain, m
  <2>3. {k \in DOMAIN chain : chain[k].asks.kind = "count"}
          = {k \in DOMAIN requests : requests[k].kind = "count"}
    BY <2>1, <2>2
  <2>4. [k \in DOMAIN chain |-> [count |-> chain[k].count]]
          = [k \in DOMAIN requests |-> [count |-> Total(requests[k], past[k - 1], output)]]
    BY <2>1, <2>2
  <2>5. Counts(chain) =
          InOrder({k \in DOMAIN requests : requests[k].kind = "count"},
                  [k \in DOMAIN requests |-> [count |-> Total(requests[k], past[k - 1], output)]])[m]
    BY <2>1, <2>3, <2>4 DEF Counts
  <2> QED
    BY <2>5 DEF chain
<1>10. Shown(fresh, output) = list[N] \o Counts(stages(N))
  <2>1. printed[N] = [chain |-> stages(N), shown |-> list[N]]
    BY <1>8
  <2> HIDE DEF stages
  <2> QED
    BY <2>1 DEF Shown, printed
<1>11. Asked(requests, output) = list[N] \o Counts(stages(N))
  <2> HIDE DEF stages
  <2> QED
    BY <1>9 DEF Asked, list, past
<1> QED
  BY <1>10, <1>11 DEF fresh

-----------------------------------------------------------------------------
(* The filters of a line that nothing hangs before do what they ask for,   *)
(* or leave nothing behind.                                                *)
FiltersFit ==
  \A line \in Lines : \A output \in {Output, <<>>} :
    LET install == Install(line.filters, <<>>) IN
    IF install.runs THEN Shown(install.chain, output) = Asked(line.filters, output)
    ELSE install.chain = <<>>

LEMMA FinishedFit == FiltersFinished => FiltersFit
<1> SUFFICES ASSUME FiltersFinished, NEW line \in Lines, NEW output \in {Output, <<>>}
             PROVE  LET install == Install(line.filters, <<>>) IN
                    IF install.runs THEN Shown(install.chain, output) = Asked(line.filters, output)
                    ELSE install.chain = <<>>
  BY DEF FiltersFit
<1>1. PICK requests \in Seq(Requests) : requests = line.filters
  BY SessionAssumption
<1>2. output \in Seq(SUBSET STRING)
  <2>1. <<>> \in Seq(SUBSET STRING)
    OBVIOUS
  <2>2. Output \in Seq(SUBSET STRING)
    BY SessionAssumption
  <2>3. output = Output \/ output = <<>>
    OBVIOUS
  <2>4. CASE output = <<>>
    BY <2>1, <2>4
  <2>5. CASE output = Output
    BY <2>2, <2>5
  <2> QED
    BY <2>3, <2>4, <2>5
<1> DEFINE bad == Fault(requests)
           wrong == {k \in 1 .. Len(requests) : requests[k].kind \in {"broken", "unfinished"}}
           chain == [k \in 1 .. (IF bad = 0 THEN Len(requests) ELSE bad - 1) |-> Fresh(requests[k])]
<1>3. Len(requests) \in Nat /\ \A k \in 1 .. Len(requests) : requests[k] \in Requests
  OBVIOUS
<1>4. IF wrong = {} THEN bad = 0 ELSE bad \in wrong
  <2>1. bad = IF wrong # {} THEN Min(wrong) ELSE 0
    BY DEF Fault, SelectInSeq
  <2>2. wrong \subseteq Nat
    OBVIOUS
  <2> HIDE DEF bad, wrong
  <2> QED
    BY <2>1, <2>2, LeastOf
<1>5. CASE bad = 0
  <2>1. wrong = {}
    BY <1>4, <1>5
  <2>2. \A k \in 1 .. Len(requests) : requests[k] \in Wanted
    <3> TAKE k \in 1 .. Len(requests)
    <3>1. requests[k] \in Requests /\ requests[k].kind \notin {"broken", "unfinished"}
      BY <1>3, <2>1
    <3> QED
      BY <3>1 DEF Requests, Wanted, Kinds
  <2>3. requests \in Seq(Wanted)
    BY <2>2
  <2>4. Shown([k \in 1 .. Len(requests) |-> Fresh(requests[k])], output) = Asked(requests, output)
    BY <1>2, <2>3, ShownIsAsked
  <2>5. /\ Install(requests, <<>>).runs
        /\ Install(requests, <<>>).chain = [k \in 1 .. Len(requests) |-> Fresh(requests[k])]
    <3>1. CASE requests = <<>>
      <4>1. [k \in 1 .. Len(requests) |-> Fresh(requests[k])] = <<>>
        BY <3>1
      <4> QED
        BY <3>1, <4>1 DEF Install
    <3>2. CASE requests # <<>>
      BY <1>5, <3>2 DEF Install
    <3> QED
      BY <3>1, <3>2
  <2> QED
    BY <1>1, <2>4, <2>5
<1>6. CASE bad # 0
  <2>1. bad \in wrong
    BY <1>4, <1>6
  <2>2. requests # <<>> /\ bad \in 1 .. Len(requests) /\ bad \in Nat
    BY <1>3, <2>1
  <2>3. requests[bad].kind # "broken" => bad = 1
    BY <1>1, <2>1, <2>2 DEF FiltersFinished
  <2> HIDE DEF bad
  <2>4. ~Install(requests, <<>>).runs /\ Install(requests, <<>>).chain = <<>>
    BY <1>6, <2>2, <2>3 DEF Install, bad
  <2> QED
    BY <1>1, <2>4
<1> QED
  BY <1>5, <1>6

-----------------------------------------------------------------------------
LEMMA NamesAreWords ==
  ASSUME NEW c \in Cmds
  PROVE  Table[c].name \in Seq(STRING)
<1> DEFINE R == [name : Seq(STRING) \ {<<>>}, parent : Nat, privilege : Nat,
                 mode : Modes \cup {ModeAny}, callback : STRING]
<1>1. Table \in Seq(R)
  BY TableAssumption
<1> HIDE DEF R
<1>2. Table[c] \in R
  BY <1>1 DEF Cmds
<1> QED
  BY <1>2 DEF R

(* No sequence that two names begin with is longer than Alike says.        *)
LEMMA AlikeIsLongest ==
  ASSUME NEW c \in Cmds, NEW d \in Cmds
  PROVE  /\ Alike[c][d] \in 0 .. Len(Table[c].name)
         /\ \A word \in Prefixes(Table[c].name) :
              IsPrefix(word, Table[d].name) => Len(word) <= Alike[c][d]
<1> DEFINE n == Table[c].name
           k == Table[d].name
           P == CommonPrefixes({n, k})
           L == {Len(word) : word \in P}
<1>1. n \in Seq(STRING) /\ k \in Seq(STRING)
  BY NamesAreWords
<1>2. Alike[c][d] = Len(LongestCommonPrefix({n, k}))
  <2> DEFINE F(x, y) == Len(LongestCommonPrefix({Table[x].name, Table[y].name}))
  <2>1. Alike = [x \in Cmds |-> [y \in Cmds |-> F(x, y)]]
    BY DEF Alike
  <2> HIDE DEF F
  <2>2. Alike[c][d] = F(c, d)
    BY <2>1
  <2> QED
    BY <2>2 DEF F
<1> HIDE DEF n, k
<1>3. \A word \in Prefixes(n) : Len(word) \in Nat /\ IsPrefix(word, n)
  BY <1>1 DEF Prefixes, IsPrefix
<1>4. \A word \in Prefixes(n) : IsPrefix(word, k) => word \in P
  BY <1>3 DEF CommonPrefixes
<1>5. \A word \in P : Len(word) \in 0 .. Len(n)
  <2> TAKE word \in P
  <2>1. word \in Prefixes(n) \cup Prefixes(k) /\ IsPrefix(word, n)
    BY DEF CommonPrefixes
  <2>2. Len(word) \in Nat
    BY <1>1, <2>1 DEF Prefixes
  <2> QED
    BY <1>1, <2>1, <2>2 DEF IsPrefix
<1>6. P # {}
  <2>1. <<>> \in Prefixes(n)
    <3>1. <<>> = SubSeq(n, 1, 0) /\ 0 \in 0 .. Len(n)
      BY <1>1
    <3> QED
      BY <3>1 DEF Prefixes
  <2>2. IsPrefix(<<>>, k)
    BY <1>1 DEF IsPrefix
  <2> QED
    BY <1>4, <2>1, <2>2
<1> HIDE DEF P
<1>7. Max(L) \in L /\ \A y \in L : y <= Max(L)
  <2>1. L \subseteq 0 .. Len(n) /\ L # {} /\ Len(n) \in Nat
    <3>1. L # {}
      BY <1>6
    <3>2. L \subseteq 0 .. Len(n)
      BY <1>5
    <3> QED
      BY <1>1, <3>1, <3>2
  <2> QED
    BY <2>1, GreatestOf
<1>8. PICK longest \in P : \A other \in P : Len(other) <= Len(longest)
  BY <1>7
<1>9. /\ LongestCommonPrefix({n, k}) \in P
      /\ \A other \in P : Len(other) <= Len(LongestCommonPrefix({n, k}))
  BY <1>8 DEF LongestCommonPrefix, P
<1> QED
  BY <1>2, <1>4, <1>5, <1>9 DEF n, k

(* Who types enough letters of a name that can be seen types what begins   *)
(* no other name that can be seen beside it.                               *)
LEMMA EnoughIsOne ==
  ASSUME NEW c \in Cmds, NEW mode, NEW privilege,
         NEW word \in Prefixes(Table[c].name),
         Len(word) >= Shortest(c, mode, privilege),
         NEW d \in Siblings(Table[c].parent), d # c, Visible(d, mode, privilege)
  PROVE  ~IsPrefix(word, Table[d].name)
<1> DEFINE n == Table[c].name
           beside == {x \in Siblings(Table[c].parent) \ {c} : Visible(x, mode, privilege)}
           S == {1} \cup {1 + Alike[c][x] : x \in beside}
<1>1. word \in Prefixes(n) /\ n \in Seq(STRING)
  BY NamesAreWords
<1>2. d \in beside /\ Len(word) \in Nat /\ Len(word) >= Max(S)
  <2>1. Len(word) \in Nat
    BY <1>1 DEF Prefixes
  <2> QED
    BY <2>1 DEF Shortest
<1>3. \A x \in beside : Alike[c][x] \in 0 .. Len(n)
  BY AlikeIsLongest DEF Siblings
<1>4. 1 + Alike[c][d] <= Max(S) /\ Max(S) \in Nat
  <2>1. S \subseteq 0 .. (Len(n) + 1) /\ S # {} /\ Len(n) + 1 \in Nat
    <3>1. Len(n) \in Nat
      BY <1>1
    <3> HIDE DEF beside, n
    <3> QED
      BY <1>3, <3>1
  <2>2. 1 + Alike[c][d] \in S
    BY <1>2
  <2> HIDE DEF S, n
  <2>3. Max(S) \in S /\ \A y \in S : y <= Max(S)
    BY <2>1, GreatestOf
  <2>4. \A y \in S : y \in Nat
    BY <2>1
  <2> QED
    BY <2>2, <2>3, <2>4
<1>5. IsPrefix(word, Table[d].name) => Len(word) <= Alike[c][d]
  BY <1>1, AlikeIsLongest DEF Siblings
<1> HIDE DEF S, beside, n
<1>6. Alike[c][d] \in Nat
  BY <1>2, <1>3
<1> QED
  BY <1>2, <1>4, <1>5, <1>6

(* A name that is shortened to no less than the letters that are counted   *)
(* for it means its command.                                               *)
LEMMA EnoughLettersTell ==
  ASSUME NEW c \in Cmds, NEW mode, NEW privilege, NEW unique,
         unique[c] = IF Visible(c, mode, privilege) THEN Shortest(c, mode, privilege)
                     ELSE Len(Table[c].name),
         NEW word \in Prefixes(Table[c].name), Stands(word, c, unique)
  PROVE  Means(word, c, mode, privilege)
<1> DEFINE n == Table[c].name
<1>1. PICK l \in 0 .. Len(n) : word = SubSeq(n, 1, l)
  BY DEF Prefixes
<1>2. n \in Seq(STRING)
  BY NamesAreWords
<1>3. l \in Nat /\ Len(n) \in Nat /\ Len(word) = l /\ (l = Len(n) => word = n)
  BY <1>1, <1>2
<1>4. IsPrefix(word, n)
  BY DEF Stands
<1>5. CASE word = n
  BY <1>4, <1>5 DEF Means
<1>6. CASE Len(word) >= unique[c] /\ ~Visible(c, mode, privilege)
  <2>1. l >= Len(n)
    BY <1>3, <1>6
  <2> QED
    BY <1>3, <1>5, <2>1
<1>7. CASE Len(word) >= unique[c] /\ Visible(c, mode, privilege)
  BY <1>4, <1>7, EnoughIsOne DEF Means
<1> QED
  BY <1>5, <1>6, <1>7 DEF Stands

-----------------------------------------------------------------------------
(* A command is registered after its parent, so that what is said of a     *)
(* command by what is said of its parent is said of every command.         *)
LEMMA CommandsAreNumbers ==
  /\ Len(Table) \in Nat /\ Cmds = 1 .. Len(Table)
  /\ \A c \in Cmds : Table[c].parent \in Lists /\ Table[c].parent < c /\ c \in Nat /\ c # Root
<1>1. Table \in Seq([name : Seq(STRING) \ {<<>>}, parent : Nat, privilege : Nat,
                     mode : Modes \cup {ModeAny}, callback : STRING])
      /\ \A c \in Cmds : Table[c].parent < c
  BY TableAssumption DEF TableAssumption
<1>2. Len(Table) \in Nat /\ Cmds = 1 .. Len(Table)
  BY <1>1, LenProperties DEF Cmds
<1>3. ASSUME NEW c \in Cmds
      PROVE  Table[c].parent \in Lists /\ Table[c].parent < c /\ c \in Nat /\ c # Root
  <2>1. Table[c].parent \in Nat
    <3> DEFINE R == [name : Seq(STRING) \ {<<>>}, parent : Nat, privilege : Nat,
                     mode : Modes \cup {ModeAny}, callback : STRING]
    <3>1. Table \in Seq(R)
      BY <1>1
    <3> HIDE DEF R
    <3>2. Table[c] \in R
      BY <3>1 DEF Cmds
    <3> QED
      BY <3>2 DEF R
  <2>2. Table[c].parent < c /\ c \in Nat /\ c >= 1
    BY <1>1, <1>2
  <2>3. Table[c].parent \in 1 .. Len(Table) \/ Table[c].parent = 0
    BY <1>2, <2>1, <2>2
  <2> QED
    BY <1>2, <2>2, <2>3 DEF Lists, Root
<1> QED
  BY <1>2, <1>3

(* The recursive functions of the tree are what their equations say.       *)
LEMMA ReachedIs ==
  ASSUME NEW mode, NEW privilege
  PROVE  \A c \in Cmds : Reached(mode, privilege)[c] <=>
           \/ Table[c].parent = Root
           \/ Visible(Table[c].parent, mode, privilege) /\ Reached(mode, privilege)[Table[c].parent]
<1> DEFINE n == Len(Table)
           P(c) == Table[c].parent
           Below(g, c) == P(c) = Root \/ (Visible(P(c), mode, privilege) /\ g[P(c)])
           S == {k \in 0 .. n : \E g : \A c \in 1 .. k : g[c] = Below(g, c)}
<1>1. n \in Nat /\ Cmds = 1 .. n /\ \A c \in Cmds : P(c) < c /\ P(c) \in Nat /\ (P(c) # Root => P(c) \in Cmds)
  BY CommandsAreNumbers DEF Lists, Root
<1>2. 0 \in S
  BY <1>1
<1>3. ASSUME NEW k \in 0 .. (n - 1), k \in S
      PROVE  k + 1 \in S
  <2>1. PICK g : \A c \in 1 .. k : g[c] = Below(g, c)
    BY <1>3
  <2> DEFINE h == [c \in 1 .. (k + 1) |-> IF c = k + 1 THEN Below(g, c) ELSE g[c]]
  <2>2. ASSUME NEW c \in 1 .. (k + 1)
        PROVE  h[c] = Below(h, c)
    <3>1. c \in Cmds /\ P(c) \in Nat /\ P(c) < c /\ k \in Nat
      BY <1>1
    <3>2. P(c) # Root => P(c) \in 1 .. k
      BY <3>1 DEF Root
    <3>3. P(c) # Root => h[P(c)] = g[P(c)]
      BY <3>1, <3>2
    <3>4. Below(h, c) = Below(g, c)
      BY <3>3
    <3>5. CASE c = k + 1
      BY <3>4, <3>5
    <3>6. CASE c # k + 1
      <4>1. c \in 1 .. k
        BY <3>1, <3>6
      <4>2. h[c] = g[c]
        BY <3>6
      <4> QED
        BY <2>1, <3>4, <4>1, <4>2
    <3> QED
      BY <3>5, <3>6
  <2> HIDE DEF h, Below
  <2>3. \E f : \A c \in 1 .. (k + 1) : f[c] = Below(f, c)
    BY <2>2
  <2>4. k + 1 \in 0 .. n
    BY <1>1
  <2> QED
    BY <2>3, <2>4
<1>4. n \in S
  <2>1. \A k \in 0 .. (n - 1) : k \in S => k + 1 \in S
    BY <1>3
  <2>2. n \in 0 .. n
    BY <1>1
  <2> HIDE DEF S, n
  <2>3. \A k \in 0 .. n : k \in S
    BY <1>1, <1>2, <2>1, AllHave
  <2> QED
    BY <2>2, <2>3
<1>5. \E f : f = [c \in Cmds |-> Below(f, c)]
  <2>1. PICK g : \A c \in 1 .. n : g[c] = Below(g, c)
    BY <1>4
  <2> DEFINE f == [c \in Cmds |-> g[c]]
  <2>2. ASSUME NEW c \in Cmds PROVE f[c] = Below(f, c)
    <3>1. P(c) # Root => f[P(c)] = g[P(c)]
      BY <1>1
    <3> QED
      BY <1>1, <2>1, <3>1
  <2>3. f = [c \in Cmds |-> f[c]]
    OBVIOUS
  <2> HIDE DEF f, Below
  <2>4. f = [c \in Cmds |-> Below(f, c)]
    BY <2>2, <2>3
  <2> QED
    BY <2>4
<1>6. Reached(mode, privilege) = CHOOSE f : f = [c \in Cmds |-> Below(f, c)]
  BY DEF Reached
<1> DEFINE reached == Reached(mode, privilege)
<1> HIDE DEF Below, reached
<1>7. reached = [c \in Cmds |-> Below(reached, c)]
  BY <1>5, <1>6 DEF reached
<1>8. \A c \in Cmds : reached[c] = Below(reached, c)
  BY <1>7
<1> QED
  BY <1>8 DEF Below, reached

LEMMA PathIs ==
  /\ Path(Root) = <<>>
  /\ \A c \in Cmds : Path(c) = Append(Path(Table[c].parent), c)
<1> DEFINE n == Len(Table)
           P(c) == Table[c].parent
           Above(g, c) == IF c = Root THEN <<>> ELSE Append(g[P(c)], c)
           S == {k \in 0 .. n : \E g : \A c \in 0 .. k : g[c] = Above(g, c)}
<1>1. /\ n \in Nat /\ Cmds = 1 .. n /\ Lists = 0 .. n /\ Root = 0
      /\ \A c \in Cmds : P(c) < c /\ P(c) \in Nat
  BY CommandsAreNumbers DEF Lists, Root
<1>2. 0 \in S
  <2> DEFINE g == [c \in {0} |-> <<>>]
  <2>1. \A c \in 0 .. 0 : c = 0 /\ g[c] = <<>> /\ Above(g, c) = <<>>
    BY <1>1
  <2> HIDE DEF g, Above
  <2>2. \E f : \A c \in 0 .. 0 : f[c] = Above(f, c)
    BY <2>1
  <2> QED
    BY <1>1, <2>2
<1>3. ASSUME NEW k \in 0 .. (n - 1), k \in S
      PROVE  k + 1 \in S
  <2>1. PICK g : \A c \in 0 .. k : g[c] = Above(g, c)
    BY <1>3
  <2> DEFINE h == [c \in 0 .. (k + 1) |-> IF c = k + 1 THEN Above(g, c) ELSE g[c]]
  <2>2. ASSUME NEW c \in 0 .. (k + 1)
        PROVE  h[c] = Above(h, c)
    <3>1. c # Root => c \in Cmds /\ P(c) \in 0 .. k /\ P(c) # k + 1
      BY <1>1
    <3>2. c # Root => h[P(c)] = g[P(c)]
      BY <1>1, <3>1
    <3>3. Above(h, c) = Above(g, c)
      BY <3>2
    <3>4. CASE c = k + 1
      BY <3>3, <3>4
    <3>5. CASE c # k + 1
      <4>1. c \in 0 .. k
        BY <1>1, <3>5
      <4>2. h[c] = g[c]
        BY <3>5
      <4> QED
        BY <2>1, <3>3, <4>1, <4>2
    <3> QED
      BY <3>4, <3>5
  <2> HIDE DEF h, Above
  <2>3. \E f : \A c \in 0 .. (k + 1) : f[c] = Above(f, c)
    BY <2>2
  <2>4. k + 1 \in 0 .. n
    BY <1>1
  <2> QED
    BY <2>3, <2>4
<1>4. n \in S
  <2>1. \A k \in 0 .. (n - 1) : k \in S => k + 1 \in S
    BY <1>3
  <2>2. n \in 0 .. n
    BY <1>1
  <2> HIDE DEF S, n
  <2>3. \A k \in 0 .. n : k \in S
    BY <1>1, <1>2, <2>1, AllHave
  <2> QED
    BY <2>2, <2>3
<1>5. \E f : f = [c \in Lists |-> Above(f, c)]
  <2>1. PICK g : \A c \in 0 .. n : g[c] = Above(g, c)
    BY <1>4
  <2> DEFINE f == [c \in Lists |-> g[c]]
  <2>2. ASSUME NEW c \in Lists PROVE f[c] = Above(f, c)
    <3>1. c # Root => f[P(c)] = g[P(c)]
      BY <1>1
    <3> QED
      BY <1>1, <2>1, <3>1
  <2>3. f = [c \in Lists |-> f[c]]
    OBVIOUS
  <2> HIDE DEF f, Above
  <2>4. f = [c \in Lists |-> Above(f, c)]
    BY <2>2, <2>3
  <2> QED
    BY <2>4
<1> DEFINE path == CHOOSE f : f = [c \in Lists |-> Above(f, c)]
<1>6. \A c : Path(c) = path[c]
  BY DEF Path
<1> HIDE DEF Above, path
<1>7. path = [c \in Lists |-> Above(path, c)]
  BY <1>5 DEF path
<1>8. \A c \in Lists : path[c] = Above(path, c)
  BY <1>7
<1>9. /\ path[Root] = <<>>
      /\ \A c \in Cmds : path[c] = Append(path[P(c)], c)
  <2>1. Root \in Lists /\ \A c \in Cmds : c \in Lists /\ c # Root
    BY CommandsAreNumbers DEF Lists
  <2> QED
    BY <1>8, <2>1 DEF Above
<1> QED
  BY <1>6, <1>9

(* A search is what each word makes of the one after it.                   *)
IsFind(find, words, help, unique, mode, privilege) ==
  \A i \in DOMAIN words :
    find[i] = FindAt(words, help, unique, mode, privilege, i,
                     IF i = Len(words) THEN <<>> ELSE find[i + 1])

LEMMA FindIs ==
  ASSUME NEW words, Len(words) \in Nat, DOMAIN words = 1 .. Len(words),
         NEW help, NEW unique, NEW mode, NEW privilege
  PROVE  \E find : /\ IsFind(find, words, help, unique, mode, privilege)
                   /\ Find(words, help, unique, mode, privilege) = find[1][Root][mode]
<1>0. PICK n \in Nat : n = Len(words)
  OBVIOUS
<1> DEFINE F(i, after) == FindAt(words, help, unique, mode, privilege, i, after)
           At(g, i) == F(i, IF i = n THEN <<>> ELSE g[i + 1])
           S == {k \in 0 .. n : \E g : \A i \in (n - k) + 1 .. n : g[i] = At(g, i)}
<1> HIDE DEF F
<1>1. 0 \in S
  OBVIOUS
<1>2. ASSUME NEW k \in 0 .. (n - 1), k \in S
      PROVE  k + 1 \in S
  <2>1. PICK g : \A i \in (n - k) + 1 .. n : g[i] = At(g, i)
    BY <1>2
  <2> DEFINE h == [i \in (n - k) .. n |-> IF i = n - k THEN At(g, i) ELSE g[i]]
  <2>2. ASSUME NEW i \in (n - k) .. n
        PROVE  h[i] = At(h, i)
    <3>1. i \in Int /\ (i # n => i + 1 \in (n - k) .. n /\ i + 1 # n - k)
      OBVIOUS
    <3>2. i # n => h[i + 1] = g[i + 1]
      BY <3>1
    <3>3. At(h, i) = At(g, i)
      BY <3>2
    <3>4. CASE i = n - k
      BY <3>3, <3>4
    <3>5. CASE i # n - k
      <4>1. i \in (n - k) + 1 .. n
        BY <3>1, <3>5
      <4>2. h[i] = g[i]
        BY <3>5
      <4> QED
        BY <2>1, <3>3, <4>1, <4>2
    <3> QED
      BY <3>4, <3>5
  <2>3. k + 1 \in 0 .. n /\ (n - (k + 1)) + 1 = n - k
    OBVIOUS
  <2> HIDE DEF h, At
  <2>4. \E f : \A i \in (n - (k + 1)) + 1 .. n : f[i] = At(f, i)
    BY <2>2, <2>3
  <2> QED
    BY <2>3, <2>4
<1>3. n \in S
  <2>1. \A k \in 0 .. (n - 1) : k \in S => k + 1 \in S
    BY <1>2
  <2>2. n \in 0 .. n /\ n \in Nat
    OBVIOUS
  <2> HIDE DEF S
  <2>3. \A k \in 0 .. n : k \in S
    BY <1>1, <2>1, <2>2, AllHave
  <2> QED
    BY <2>2, <2>3
<1>4. \E f : f = [i \in DOMAIN words |-> At(f, i)]
  <2>1. PICK g : \A i \in (n - n) + 1 .. n : g[i] = At(g, i)
    BY <1>3
  <2> DEFINE f == [i \in DOMAIN words |-> g[i]]
  <2>2. ASSUME NEW i \in DOMAIN words PROVE f[i] = At(f, i)
    <3>1. i \in 1 .. n /\ (n - n) + 1 = 1
      BY <1>0
    <3>2. i # n => i + 1 \in DOMAIN words
      BY <1>0, <3>1
    <3>3. i # n => f[i + 1] = g[i + 1]
      BY <3>2
    <3>4. At(f, i) = At(g, i)
      BY <3>3
    <3>5. f[i] = g[i]
      OBVIOUS
    <3> QED
      BY <2>1, <3>1, <3>4, <3>5
  <2>3. f = [i \in DOMAIN words |-> f[i]]
    OBVIOUS
  <2> HIDE DEF f, At
  <2>4. f = [i \in DOMAIN words |-> At(f, i)]
    BY <2>2, <2>3
  <2> QED
    BY <2>4
<1> DEFINE find == CHOOSE f : f = [i \in DOMAIN words |-> At(f, i)]
<1>5. Find(words, help, unique, mode, privilege) = find[1][Root][mode]
  BY <1>0 DEF Find, F
<1> HIDE DEF At, find
<1>6. find = [i \in DOMAIN words |-> At(find, i)]
  BY <1>4 DEF find
<1>7. \A i \in DOMAIN words : find[i] = At(find, i)
  BY <1>6
<1>8. IsFind(find, words, help, unique, mode, privilege)
  BY <1>0, <1>7 DEF IsFind, At, F
<1> QED
  BY <1>5, <1>8

(* So is what Tab offers.                                                  *)
IsOffered(offered, words, unique, mode, privilege) ==
  \A i \in DOMAIN words :
    offered[i] = OfferedAt(words, unique, mode, privilege, i,
                           IF i = Len(words) THEN <<>> ELSE offered[i + 1])

LEMMA OfferedIs ==
  ASSUME NEW words, Len(words) \in Nat, DOMAIN words = 1 .. Len(words),
         NEW unique, NEW mode, NEW privilege
  PROVE  \E offered : /\ IsOffered(offered, words, unique, mode, privilege)
                      /\ Completions(words, unique, mode, privilege) = offered[1][Root]
<1>0. PICK n \in Nat : n = Len(words)
  OBVIOUS
<1> DEFINE F(i, after) == OfferedAt(words, unique, mode, privilege, i, after)
           At(g, i) == F(i, IF i = n THEN <<>> ELSE g[i + 1])
           S == {k \in 0 .. n : \E g : \A i \in (n - k) + 1 .. n : g[i] = At(g, i)}
<1> HIDE DEF F
<1>1. 0 \in S
  OBVIOUS
<1>2. ASSUME NEW k \in 0 .. (n - 1), k \in S
      PROVE  k + 1 \in S
  <2>1. PICK g : \A i \in (n - k) + 1 .. n : g[i] = At(g, i)
    BY <1>2
  <2> DEFINE h == [i \in (n - k) .. n |-> IF i = n - k THEN At(g, i) ELSE g[i]]
  <2>2. ASSUME NEW i \in (n - k) .. n
        PROVE  h[i] = At(h, i)
    <3>1. i \in Int /\ (i # n => i + 1 \in (n - k) .. n /\ i + 1 # n - k)
      OBVIOUS
    <3>2. i # n => h[i + 1] = g[i + 1]
      BY <3>1
    <3>3. At(h, i) = At(g, i)
      BY <3>2
    <3>4. CASE i = n - k
      BY <3>3, <3>4
    <3>5. CASE i # n - k
      <4>1. i \in (n - k) + 1 .. n
        BY <3>1, <3>5
      <4>2. h[i] = g[i]
        BY <3>5
      <4> QED
        BY <2>1, <3>3, <4>1, <4>2
    <3> QED
      BY <3>4, <3>5
  <2>3. k + 1 \in 0 .. n /\ (n - (k + 1)) + 1 = n - k
    OBVIOUS
  <2> HIDE DEF h, At
  <2>4. \E f : \A i \in (n - (k + 1)) + 1 .. n : f[i] = At(f, i)
    BY <2>2, <2>3
  <2> QED
    BY <2>3, <2>4
<1>3. n \in S
  <2>1. \A k \in 0 .. (n - 1) : k \in S => k + 1 \in S
    BY <1>2
  <2>2. n \in 0 .. n /\ n \in Nat
    OBVIOUS
  <2> HIDE DEF S
  <2>3. \A k \in 0 .. n : k \in S
    BY <1>1, <2>1, <2>2, AllHave
  <2> QED
    BY <2>2, <2>3
<1>4. \E f : f = [i \in DOMAIN words |-> At(f, i)]
  <2>1. PICK g : \A i \in (n - n) + 1 .. n : g[i] = At(g, i)
    BY <1>3
  <2> DEFINE f == [i \in DOMAIN words |-> g[i]]
  <2>2. ASSUME NEW i \in DOMAIN words PROVE f[i] = At(f, i)
    <3>1. i \in 1 .. n /\ (n - n) + 1 = 1
      BY <1>0
    <3>2. i # n => i + 1 \in DOMAIN words
      BY <1>0, <3>1
    <3>3. i # n => f[i + 1] = g[i + 1]
      BY <3>2
    <3>4. At(f, i) = At(g, i)
      BY <3>3
    <3>5. f[i] = g[i]
      OBVIOUS
    <3> QED
      BY <2>1, <3>1, <3>4, <3>5
  <2>3. f = [i \in DOMAIN words |-> f[i]]
    OBVIOUS
  <2> HIDE DEF f, At
  <2>4. f = [i \in DOMAIN words |-> At(f, i)]
    BY <2>2, <2>3
  <2> QED
    BY <2>4
<1> DEFINE offered == CHOOSE f : f = [i \in DOMAIN words |-> At(f, i)]
<1>5. Completions(words, unique, mode, privilege) = offered[1][Root]
  BY <1>0 DEF Completions, F
<1> HIDE DEF At, offered
<1>6. offered = [i \in DOMAIN words |-> At(offered, i)]
  BY <1>4 DEF offered
<1>7. \A i \in DOMAIN words : offered[i] = At(offered, i)
  BY <1>6
<1>8. IsOffered(offered, words, unique, mode, privilege)
  BY <1>0, <1>7 DEF IsOffered, At, F
<1> QED
  BY <1>5, <1>8

-----------------------------------------------------------------------------
(* A search chooses one that can be seen, unless it leaves a mode within   *)
(* configuration for a command of configuration.                           *)
Stays(choice, hits, m) ==
  choice.mode = m /\ choice.cmd \in InMode(hits, m) \cup InMode(hits, ModeAny)

Leaves(choice, hits, m) ==
  /\ m > ModeConfig /\ choice.mode = ModeConfig
  /\ choice.cmd \in InMode(hits, ModeConfig) /\ InMode(hits, m) = {}

Fails(choice, hits, m) ==
  /\ choice.cmd = 0 /\ choice.mode = m
  /\ InMode(hits, m) = {} /\ InMode(hits, ModeAny) = {}

LEMMA ChoiceIs ==
  ASSUME NEW hits, hits \subseteq Cmds, NEW m \in Modes
  PROVE  \/ Stays(Chosen(hits, m), hits, m)
         \/ Leaves(Chosen(hits, m), hits, m)
         \/ Fails(Chosen(hits, m), hits, m)
<1> DEFINE ends == Ends(hits, m)
           config == InMode(hits, ModeConfig)
           any == InMode(hits, ModeAny)
           b == Len(Table)
<1>1. b \in Nat /\ hits \subseteq 1 .. b
  BY CommandsAreNumbers
<1>2. ends \subseteq hits /\ config \subseteq hits /\ any \subseteq hits
      /\ ends \subseteq InMode(hits, m) \cup any /\ InMode(hits, m) \subseteq ends
  BY DEF Ends, InMode
<1>3. Chosen(hits, m) = IF ends # {} THEN [cmd |-> Min(ends), mode |-> m]
                        ELSE IF m > ModeConfig /\ config # {}
                          THEN [cmd |-> Max(config), mode |-> ModeConfig]
                        ELSE [cmd |-> Max({0} \cup any), mode |-> m]
  BY DEF Chosen
<1> HIDE DEF ends, config, any, b
<1>4. CASE ends # {}
  <2>1. Min(ends) \in ends
    <3>1. ends \subseteq Nat
      BY <1>1, <1>2
    <3> QED
      BY <1>4, <3>1, LeastOf
  <2> QED
    BY <1>2, <1>3, <1>4, <2>1 DEF Stays, any
<1>5. CASE ends = {} /\ m > ModeConfig /\ config # {}
  <2>1. Max(config) \in config
    <3>1. config \subseteq 0 .. b
      BY <1>1, <1>2
    <3> QED
      BY <1>1, <1>5, <3>1, GreatestOf
  <2> QED
    BY <1>2, <1>3, <1>5, <2>1 DEF Leaves, config
<1>6. CASE ends = {} /\ ~(m > ModeConfig /\ config # {})
  <2> DEFINE A == {0} \cup any
  <2>1. Max(A) \in A /\ \A y \in A : y <= Max(A)
    <3>1. A \subseteq 0 .. b /\ A # {}
      BY <1>1, <1>2
    <3> HIDE DEF A
    <3> QED
      BY <1>1, <3>1, GreatestOf
  <2>2. any # {} => Max(A) \in any
    <3>1. \A y \in any : y \in Nat /\ y # 0
      BY <1>1, <1>2
    <3> SUFFICES ASSUME any # {}, Max(A) = 0 PROVE FALSE
      BY <2>1
    <3>2. PICK y \in any : TRUE
      OBVIOUS
    <3>3. y <= 0
      BY <2>1
    <3> QED
      BY <3>1, <3>3
  <2>3. any = {} => Max(A) = 0
    BY <2>1
  <2>4. Chosen(hits, m) = [cmd |-> Max(A), mode |-> m]
    BY <1>3, <1>6
  <2> HIDE DEF A
  <2>5. InMode(hits, m) = {}
    BY <1>2, <1>6
  <2> QED
    BY <2>2, <2>3, <2>4, <2>5 DEF Stays, Fails, any
<1> QED
  BY <1>4, <1>5, <1>6

-----------------------------------------------------------------------------
(* The letters are right for the commands that can be come to.             *)
Tells(unique, m, privilege) ==
  \A c \in Cmds : Reached(m, privilege)[c] =>
    unique[c] = IF Visible(c, m, privilege) THEN Shortest(c, m, privilege)
                ELSE Len(Table[c].name)

LEMMA BuiltIsRight ==
  ASSUME NEW u, NEW m, NEW privilege
  PROVE  Tells(BuildShortest(u, m, privilege), m, privilege)
<1> DEFINE reached == Reached(m, privilege)
           Count(c) == IF Visible(c, m, privilege) THEN Shortest(c, m, privilege)
                       ELSE Len(Table[c].name)
<1>1. BuildShortest(u, m, privilege) = [c \in Cmds |-> IF ~reached[c] THEN u[c] ELSE Count(c)]
  BY DEF BuildShortest
<1> HIDE DEF reached, Count
<1>2. \A c \in Cmds : reached[c] => BuildShortest(u, m, privilege)[c] = Count(c)
  BY <1>1
<1> QED
  BY <1>2 DEF Tells, reached, Count

LEMMA CountedIsRight ==
  ASSUME NEW unique, NEW mode, NEW privilege, unique = BuildShortest(unique, mode, privilege),
         NEW m
  PROVE  Tells(Counted(unique, mode, privilege, m), m, privilege)
<1>1. Tells(unique, mode, privilege)
  BY BuiltIsRight
<1>2. Tells(BuildShortest(unique, m, privilege), m, privilege)
  BY BuiltIsRight
<1> QED
  BY <1>1, <1>2 DEF Counted

(* A search has come to a list: the commands above it are visible.         *)
Come(p, m, privilege) ==
  p = Root \/ (Visible(p, m, privilege) /\ Reached(m, privilege)[p])

LEMMA ComeReaches ==
  ASSUME NEW p \in Lists, NEW m, NEW privilege, Come(p, m, privilege),
         NEW c \in Siblings(p)
  PROVE  /\ c \in Cmds /\ Table[c].parent = p
         /\ Reached(m, privilege)[c]
         /\ Visible(c, m, privilege) => Come(c, m, privilege)
<1>1. c \in Cmds /\ Table[c].parent = p
  BY DEF Siblings
<1>2. Reached(m, privilege)[c]
  BY <1>1, ReachedIs DEF Come
<1> QED
  BY <1>1, <1>2 DEF Come

LEMMA PrefixIs ==
  ASSUME NEW c \in Cmds, NEW word \in Seq(STRING), IsPrefix(word, Table[c].name)
  PROVE  word \in Prefixes(Table[c].name)
<1> DEFINE n == Table[c].name
<1>1. n \in Seq(STRING) /\ IsPrefix(word, n)
  BY NamesAreWords
<1> HIDE DEF n
<1>2. Len(word) \in 0 .. Len(n) /\ word = SubSeq(n, 1, Len(word))
  BY <1>1 DEF IsPrefix
<1>3. word \in Prefixes(n)
  BY <1>2 DEF Prefixes
<1> QED
  BY <1>3 DEF n

(* What a word that is found says.                                         *)
LEMMA HitMeans ==
  ASSUME NEW p \in Lists, NEW m, NEW privilege, Come(p, m, privilege),
         NEW unique, Tells(unique, m, privilege),
         NEW word \in Seq(STRING), NEW c \in Hits(p, word, unique, privilege)
  PROVE  /\ Table[c].privilege <= privilege
         /\ IsPrefix(word, Table[c].name)
         /\ Means(word, c, m, privilege)
         /\ ~Visible(c, m, privilege) => word = Table[c].name
<1>1. /\ c \in Siblings(p) /\ Table[c].privilege <= privilege
      /\ Stands(word, c, unique) /\ IsPrefix(word, Table[c].name)
  BY DEF Hits, Stands
<1>2. c \in Cmds /\ Reached(m, privilege)[c]
  BY <1>1, ComeReaches
<1>3. unique[c] = IF Visible(c, m, privilege) THEN Shortest(c, m, privilege)
                  ELSE Len(Table[c].name)
  BY <1>2 DEF Tells
<1>4. Means(word, c, m, privilege)
  BY <1>1, <1>2, <1>3, PrefixIs, EnoughLettersTell
<1>5. ASSUME ~Visible(c, m, privilege) PROVE word = Table[c].name
  <2> DEFINE n == Table[c].name
  <2>1. n \in Seq(STRING) /\ (word = n \/ Len(word) >= Len(n)) /\ IsPrefix(word, n)
    BY <1>1, <1>2, <1>3, <1>5, NamesAreWords DEF Stands
  <2> HIDE DEF n
  <2>2. word = n
    BY <2>1 DEF IsPrefix
  <2> QED
    BY <2>2 DEF n
<1> QED
  BY <1>1, <1>4, <1>5

-----------------------------------------------------------------------------
(* The words of a line.                                                    *)
AreWords(words) ==
  /\ words \in Seq(Seq(STRING))
  /\ Len(words) \in Nat /\ DOMAIN words = 1 .. Len(words) /\ Len(words) >= 1
  /\ \A i \in 1 .. Len(words) : words[i] \in Seq(STRING)

LEMMA LinesAreWords ==
  ASSUME NEW line \in Lines
  PROVE  AreWords(line.words)
<1> DEFINE W == Seq(STRING)
           R == [words : Seq(W) \ {<<>>},
                 filters : Seq(Requests), help : BOOLEAN]
<1>1. line \in R
  BY SessionAssumption DEF SessionAssumption
<1>2. line.words \in Seq(W) \ {<<>>}
  BY <1>1
<1> HIDE DEF W, R
<1>3. PICK w \in Seq(W) : w = line.words /\ w # <<>>
  BY <1>2
<1>4. Len(w) \in Nat /\ DOMAIN w = 1 .. Len(w) /\ \A i \in 1 .. Len(w) : w[i] \in W
  BY ElementOfSeq, LenProperties
<1>5. Len(w) # 0
  BY <1>3, EmptySeq
<1> QED
  BY <1>3, <1>4, <1>5 DEF AreWords, W

(* The search from one list at one word.                                   *)
FoundAt(words, help, unique, mode, privilege, i, after, p, m) ==
  LET choice == Chosen(Hits(p, words[i], Counted(unique, mode, privilege, m), privilege), m)
      c == choice.cmd
      below == after[c][choice.mode]
  IN  IF help /\ i = Len(words) THEN Nothing(FALSE, m)
      ELSE IF c = 0 THEN Nothing(TRUE, m)
      ELSE IF Siblings(c) = {} \/ i = Len(words) THEN Runs(c, choice.mode)
      ELSE IF below.arg /\ Callback(c) # "none" THEN Runs(c, below.mode)
      ELSE below

LEMMA FoundIs ==
  ASSUME NEW words, NEW help, NEW unique, NEW mode, NEW privilege, NEW i, NEW after,
         NEW p \in Lists, NEW m \in Modes
  PROVE  FindAt(words, help, unique, mode, privilege, i, after)[p][m]
           = FoundAt(words, help, unique, mode, privilege, i, after, p, m)
<1> DEFINE choice(q, k) ==
             Chosen(Hits(q, words[i], Counted(unique, mode, privilege, k), privilege), k)
           below(q, k) == after[choice(q, k).cmd][choice(q, k).mode]
           F(q, k) == IF help /\ i = Len(words) THEN Nothing(FALSE, k)
                      ELSE IF choice(q, k).cmd = 0 THEN Nothing(TRUE, k)
                      ELSE IF Siblings(choice(q, k).cmd) = {} \/ i = Len(words)
                        THEN Runs(choice(q, k).cmd, choice(q, k).mode)
                      ELSE IF below(q, k).arg /\ Callback(choice(q, k).cmd) # "none"
                        THEN Runs(choice(q, k).cmd, below(q, k).mode)
                      ELSE below(q, k)
<1>1. FindAt(words, help, unique, mode, privilege, i, after) = [q \in Lists |-> [k \in Modes |-> F(q, k)]]
  BY DEF FindAt
<1> HIDE DEF F
<1>2. FindAt(words, help, unique, mode, privilege, i, after)[p][m] = F(p, m)
  BY <1>1
<1> QED
  BY <1>2 DEF F, FoundAt

(* A search leaves the session in a mode.                                  *)
ModesFound(find, i) == \A p \in Lists, m \in Modes : find[i][p][m].mode \in Modes

LEMMA ModesStep ==
  ASSUME NEW words, AreWords(words),
         NEW help, NEW unique, NEW mode, NEW privilege,
         NEW find, IsFind(find, words, help, unique, mode, privilege),
         NEW i \in 1 .. Len(words), i # Len(words) => ModesFound(find, i + 1)
  PROVE  ModesFound(find, i)
<1> SUFFICES ASSUME NEW p \in Lists, NEW m \in Modes
             PROVE  find[i][p][m].mode \in Modes
  BY DEF ModesFound
<1> DEFINE hits == Hits(p, words[i], Counted(unique, mode, privilege, m), privilege)
           choice == Chosen(hits, m)
           c == choice.cmd
           after == IF i = Len(words) THEN <<>> ELSE find[i + 1]
           below == after[c][choice.mode]
           r == find[i][p][m]
<1>1. find[i] = FindAt(words, help, unique, mode, privilege, i, after)
  BY DEF IsFind, AreWords
<1>2. r = FoundAt(words, help, unique, mode, privilege, i, after, p, m)
  <2> HIDE DEF after
  <2> QED
    BY <1>1, FoundIs
<1>3. hits \subseteq Cmds
  BY DEF Hits, Siblings
<1> HIDE DEF hits
<1>4. Stays(choice, hits, m) \/ Leaves(choice, hits, m) \/ Fails(choice, hits, m)
  BY <1>3, ChoiceIs
<1>5. choice.mode \in Modes /\ (c # 0 => c \in Lists)
  <2> HIDE DEF choice
  <2> QED
    BY <1>3, <1>4 DEF Stays, Leaves, Fails, InMode, Lists, Modes, ModeConfig
<1> HIDE DEF choice
<1>6. i # Len(words) /\ c # 0 => below.mode \in Modes
  BY <1>5 DEF ModesFound
<1>7. \A k \in Modes : \A arg : Nothing(arg, k).mode \in Modes /\ Runs(c, k).mode \in Modes
  BY DEF Nothing, Runs
<1>8. r = IF help /\ i = Len(words) THEN Nothing(FALSE, m)
          ELSE IF c = 0 THEN Nothing(TRUE, m)
          ELSE IF Siblings(c) = {} \/ i = Len(words) THEN Runs(c, choice.mode)
          ELSE IF below.arg /\ Callback(c) # "none" THEN Runs(c, below.mode)
          ELSE below
  BY <1>2 DEF FoundAt, choice, hits
<1> HIDE DEF below, r
<1> QED
  <2>1. r.mode \in Modes
    BY <1>5, <1>6, <1>7, <1>8
  <2> QED
    BY <2>1 DEF r

LEMMA FindsMode ==
  ASSUME NEW words, AreWords(words),
         NEW help, NEW unique, NEW mode \in Modes, NEW privilege
  PROVE  Find(words, help, unique, mode, privilege).mode \in Modes
<1>0. PICK find : /\ IsFind(find, words, help, unique, mode, privilege)
                  /\ Find(words, help, unique, mode, privilege) = find[1][Root][mode]
  BY FindIs DEF AreWords
<1>1. PICK n \in Nat : n = Len(words) /\ n >= 1
  BY DEF AreWords
<1> DEFINE S == {k \in 0 .. (n - 1) : ModesFound(find, n - k)}
<1>2. ASSUME NEW k \in 0 .. (n - 1), k # 0 => ModesFound(find, (n - k) + 1)
      PROVE  ModesFound(find, n - k)
  <2> DEFINE i == n - k
  <2>1. i \in 1 .. Len(words) /\ (i # Len(words) => k # 0)
    BY <1>1
  <2>2. i # Len(words) => ModesFound(find, i + 1)
    BY <1>2, <2>1
  <2> HIDE DEF i
  <2>3. ModesFound(find, i)
    BY <1>0, <2>1, <2>2, ModesStep
  <2> QED
    BY <2>3 DEF i
<1>3. 0 \in S
  BY <1>1, <1>2
<1>4. ASSUME NEW k \in 0 .. ((n - 1) - 1), k \in S PROVE k + 1 \in S
  <2>1. k + 1 \in 0 .. (n - 1) /\ (n - (k + 1)) + 1 = n - k
    BY <1>1
  <2>2. ModesFound(find, (n - (k + 1)) + 1)
    BY <1>4, <2>1
  <2>3. ModesFound(find, n - (k + 1))
    BY <1>2, <2>1, <2>2
  <2> QED
    BY <2>1, <2>3
<1>5. n - 1 \in S
  <2>1. n - 1 \in Nat /\ n - 1 \in 0 .. (n - 1)
    BY <1>1
  <2>2. \A k \in 0 .. ((n - 1) - 1) : k \in S => k + 1 \in S
    BY <1>4
  <2> HIDE DEF S
  <2>3. \A k \in 0 .. (n - 1) : k \in S
    BY <1>3, <2>1, <2>2, AllHave
  <2> QED
    BY <2>1, <2>3
<1>6. n - (n - 1) = 1
  BY <1>1
<1>7. ModesFound(find, 1)
  BY <1>5, <1>6
<1> QED
  BY <1>0, <1>7 DEF ModesFound, Lists

-----------------------------------------------------------------------------
(* The letters that are kept with the commands are those of the mode and   *)
(* of the privilege the session is in.                                     *)
Current(s) ==
  s.mode \in Modes /\ s.unique = BuildShortest(s.unique, s.mode, s.privilege)

(* What a change of mode or privilege leaves of a session s.               *)
Recounts(s, t) == IsSession(t) /\ Current(t) /\ t.filters = s.filters

LEMMA BuiltTwice ==
  ASSUME NEW u, NEW m, NEW p
  PROVE  BuildShortest(u, m, p) = BuildShortest(BuildShortest(u, m, p), m, p)
<1> DEFINE R == Reached(m, p)
           B(f) == [c \in Cmds |->
                      IF ~R[c] THEN f[c]
                      ELSE IF Visible(c, m, p) THEN Shortest(c, m, p)
                      ELSE Len(Table[c].name)]
<1>1. \A f : BuildShortest(f, m, p) = B(f)
  BY DEF BuildShortest
<1>2. B(u) = B(B(u))
  <2> HIDE DEF R
  <2> QED
    OBVIOUS
<1> QED
  BY <1>1, <1>2

LEMMA SetPrivilegeCounts ==
  ASSUME NEW s, IsSession(s), Current(s), NEW p
  PROVE  Recounts(s, SetPrivilege(s, p))
<1>1. CASE p = s.privilege
  BY <1>1 DEF SetPrivilege, Recounts
<1>2. CASE p # s.privilege
  <2> DEFINE u == BuildShortest(s.unique, s.mode, p)
             t == [s EXCEPT !.privilege = p, !.unique = u]
  <2>1. SetPrivilege(s, p) = t
    BY <1>2 DEF SetPrivilege
  <2>2. u = BuildShortest(u, s.mode, p)
    BY BuiltTwice
  <2> HIDE DEF u
  <2>3. /\ IsSession(t) /\ t.filters = s.filters
        /\ t.unique = u /\ t.mode = s.mode /\ t.privilege = p
    BY DEF IsSession, Fields
  <2> HIDE DEF t
  <2> QED
    BY <2>1, <2>2, <2>3 DEF Recounts, Current
<1> QED
  BY <1>1, <1>2

LEMMA SetModeCounts ==
  ASSUME NEW s, IsSession(s), Current(s), NEW m \in Modes
  PROVE  Recounts(s, SetMode(s, m))
<1>1. CASE m = s.mode
  BY <1>1 DEF SetMode, Recounts
<1>2. CASE m # s.mode
  <2> DEFINE u == BuildShortest(s.unique, m, s.privilege)
             t == [s EXCEPT !.mode = m, !.unique = u]
  <2>1. SetMode(s, m) = t
    BY <1>2 DEF SetMode
  <2>2. u = BuildShortest(u, m, s.privilege)
    BY BuiltTwice
  <2> HIDE DEF u
  <2>3. /\ IsSession(t) /\ t.filters = s.filters
        /\ t.unique = u /\ t.mode = m /\ t.privilege = s.privilege
    BY DEF IsSession, Fields
  <2> HIDE DEF t
  <2> QED
    BY <2>1, <2>2, <2>3 DEF Recounts, Current
<1> QED
  BY <1>1, <1>2

LEMMA SetBothCounts ==
  ASSUME NEW s, IsSession(s), Current(s), NEW p, NEW m \in Modes
  PROVE  Recounts(s, SetBoth(s, p, m))
<1>1. Recounts(s, SetPrivilege(s, p))
  BY SetPrivilegeCounts
<1>2. Recounts(SetPrivilege(s, p), SetMode(SetPrivilege(s, p), m))
  BY <1>1, SetModeCounts DEF Recounts
<1> QED
  BY <1>1, <1>2 DEF SetBoth, Recounts

LEMMA StateCounts ==
  ASSUME NEW s, IsSession(s), Current(s), NEW x
  PROVE  Recounts(s, [s EXCEPT !.state = x])
<1> DEFINE t == [s EXCEPT !.state = x]
<1>1. /\ IsSession(t) /\ t.filters = s.filters
      /\ t.unique = s.unique /\ t.mode = s.mode /\ t.privilege = s.privilege
  BY DEF IsSession, Fields
<1> HIDE DEF t
<1>2. Recounts(s, t)
  BY <1>1 DEF Recounts, Current
<1> QED
  BY <1>2 DEF t

LEMMA CalledCounts ==
  ASSUME NEW s, IsSession(s), Current(s), NEW callback
  PROVE  Recounts(s, Called(s, callback))
<1>1. Recounts(s, s)
  BY DEF Recounts
<1>2. \/ Called(s, callback) = s
      \/ \E m \in Modes : Called(s, callback) = SetMode(s, m)
      \/ \E p : \E m \in Modes : Called(s, callback) = SetBoth(s, p, m)
      \/ Called(s, callback) = [s EXCEPT !.state = "enablePassword"]
  <2>1. ModeExec \in Modes /\ ModeConfig \in Modes /\ ModeSub \in Modes
    BY DEF Modes
  <2> QED
    BY <2>1, Zenon DEF Called, Exit, Enable
<1> QED
  BY <1>1, <1>2, SetModeCounts, SetBothCounts, StateCounts

-----------------------------------------------------------------------------
(* While a loop runs its letters are current.                              *)
LettersInv ==
  \A c \in Clis :
    cli[c].mode \in Modes /\ (cli[c].state # "none" => Current(cli[c]))

(* Nothing hangs at a session between two lines.                           *)
ChainInv ==
  /\ intact \in [Clis -> BOOLEAN]
  /\ \A c \in Clis : cli[c].filters = <<>> /\ intact[c]

(* What a step may do to a structure c, whose new value is s.              *)
LEMMA OneLetters ==
  ASSUME AccessInv, LettersInv, NEW c \in Clis, NEW s,
         cli' = [cli EXCEPT ![c] = s], s.mode \in Modes,
         s.state = "none" \/ Current(s)
  PROVE  LettersInv' /\ cli'[c] = s /\ \A d \in Clis : d # c => cli'[d] = cli[d]
<1>1. cli'[c] = s /\ \A d \in Clis : d # c => cli'[d] = cli[d]
  BY DEF AccessInv
<1>2. LettersInv'
  BY <1>1 DEF LettersInv, Current
<1> QED
  BY <1>1, <1>2

LEMMA OneCounts ==
  ASSUME AccessInv, LettersInv, NEW c \in Clis, NEW s,
         cli' = [cli EXCEPT ![c] = s], s.mode \in Modes,
         s.state = "none" \/ Current(s),
         s.filters = cli[c].filters \/ s.filters = <<>>,
         UNCHANGED intact
  PROVE  LettersInv' /\ (ChainInv => ChainInv')
<1>1. LettersInv' /\ cli'[c] = s /\ \A d \in Clis : d # c => cli'[d] = cli[d]
  BY OneLetters
<1>2. ASSUME ChainInv PROVE ChainInv'
  BY <1>1, <1>2 DEF ChainInv
<1> QED
  BY <1>1, <1>2

LEMMA NameCounts ==
  ASSUME AccessInv, LettersInv, NEW c \in Clis, NEW right \in BOOLEAN,
         \/ \E user, help \in BOOLEAN : EnterName(c, user, help)
         \/ EnterPassword(c, right)
  PROVE  LettersInv' /\ (ChainInv => ChainInv')
<1>1. PICK x : cli' = [cli EXCEPT ![c] = [cli[c] EXCEPT !.state = x]] /\ UNCHANGED intact
               /\ cli[c].state # "none"
  BY DEF EnterName, EnterPassword
<1>2. Recounts(cli[c], [cli[c] EXCEPT !.state = x])
  BY <1>1, StateCounts, Before DEF LettersInv
<1> QED
  BY <1>1, <1>2, OneCounts DEF Recounts, Current

LEMMA EnableCounts ==
  ASSUME AccessInv, LettersInv, NEW c \in Clis, NEW right \in BOOLEAN,
         EnterEnablePassword(c, right)
  PROVE  LettersInv' /\ (ChainInv => ChainInv')
<1> DEFINE e == [cli[c] EXCEPT !.state = "enable"]
           n == [cli[c] EXCEPT !.state = "normal"]
<1>1. PICK s \in {SetPrivilege(e, Privileged), n} :
        cli' = [cli EXCEPT ![c] = s] /\ UNCHANGED intact /\ cli[c].state # "none"
  BY DEF EnterEnablePassword
<1>2. Recounts(cli[c], e) /\ Recounts(cli[c], n)
  BY <1>1, StateCounts, Before DEF LettersInv
<1> HIDE DEF e, n
<1>3. Recounts(e, SetPrivilege(e, Privileged))
  BY <1>2, SetPrivilegeCounts DEF Recounts
<1>4. Recounts(cli[c], s)
  BY <1>1, <1>2, <1>3 DEF Recounts
<1> QED
  BY <1>1, <1>4, OneCounts DEF Recounts, Current

LEMMA BeginCounts ==
  ASSUME AccessInv, LettersInv, NEW c \in Clis, BeginLoop(c)
  PROVE  LettersInv' /\ (ChainInv => ChainInv')
<1> DEFINE u == BuildShortest(cli[c].unique, cli[c].mode, cli[c].privilege)
           built == [cli[c] EXCEPT !.unique = u]
           s == [SetBoth(built, 0, ModeExec) EXCEPT !.state = "login"]
<1>1. cli' = [cli EXCEPT ![c] = s] /\ UNCHANGED intact
  BY DEF BeginLoop
<1>2. u = BuildShortest(u, cli[c].mode, cli[c].privilege)
  BY BuiltTwice
<1> HIDE DEF u
<1>3. /\ IsSession(built) /\ built.filters = cli[c].filters
      /\ built.unique = u /\ built.mode = cli[c].mode /\ built.privilege = cli[c].privilege
  BY Before DEF IsSession, Fields
<1> HIDE DEF built
<1>4. Current(built)
  BY <1>2, <1>3 DEF Current, LettersInv
<1>5. Recounts(built, SetBoth(built, 0, ModeExec))
  <2>1. ModeExec \in Modes
    BY DEF Modes
  <2> QED
    BY <1>3, <1>4, <2>1, SetBothCounts
<1>6. Recounts(SetBoth(built, 0, ModeExec), s)
  BY <1>5, StateCounts DEF Recounts
<1> HIDE DEF s
<1>7. Current(s) /\ s.filters = cli[c].filters
  BY <1>3, <1>5, <1>6 DEF Recounts
<1> QED
  BY <1>1, <1>7, OneCounts DEF Current

(* A line: the chain of its filters is down again when the next one comes. *)
LEMMA LineCounts ==
  ASSUME AccessInv, LettersInv, NEW c \in Clis, NEW line \in Lines, EnterLine(c, line)
  PROVE  LettersInv' /\ (FiltersFinished /\ ChainInv => ChainInv')
<1> DEFINE found == FindLine(cli[c], line)
           s == SetMode(cli[c], found.mode)
           install == Install(line.filters, cli[c].filters)
<1>1. /\ cli[c].state # "none"
      /\ \/ RunNothing(c, line, found)
         \/ RunRefused(c, line, found)
         \/ RunCommand(c, line, found)
  BY DEF EnterLine, AtPrompt
<1>2. Recounts(cli[c], s)
  <2>1. IsSession(cli[c]) /\ Current(cli[c])
    BY <1>1, Before DEF LettersInv
  <2>2. found.mode \in Modes
    BY <2>1, LinesAreWords, FindsMode DEF FindLine, Current
  <2> HIDE DEF found
  <2> QED
    BY <2>1, <2>2, SetModeCounts
<1>3. FiltersFinished /\ ChainInv =>
        \A output \in {Output, <<>>} :
          IF install.runs THEN Shown(install.chain, output) = Asked(line.filters, output)
          ELSE install.chain = <<>>
  BY FinishedFit DEF FiltersFit, ChainInv
<1>4. CASE RunNothing(c, line, found)
  <2>1. cli' = [cli EXCEPT ![c] = s] /\ UNCHANGED intact
    BY <1>4 DEF RunNothing
  <2> HIDE DEF s
  <2> QED
    BY <1>2, <2>1, OneCounts DEF Recounts, Current
<1>5. CASE RunRefused(c, line, found)
  <2> DEFINE chain == install.chain
             t == [s EXCEPT !.filters = chain]
  <2>1. cli' = [cli EXCEPT ![c] = t] /\ UNCHANGED intact /\ ~install.runs
    BY <1>5 DEF RunRefused
  <2>2. FiltersFinished /\ ChainInv => chain = <<>>
    BY <1>3, <2>1
  <2> HIDE DEF s, chain
  <2>3. /\ t.filters = chain /\ t.unique = s.unique
        /\ t.mode = s.mode /\ t.privilege = s.privilege
    BY <1>2 DEF Recounts, IsSession, Fields
  <2>4. Current(t)
    BY <1>2, <2>3 DEF Recounts, Current
  <2> HIDE DEF t
  <2>5. LettersInv' /\ cli'[c] = t /\ \A d \in Clis : d # c => cli'[d] = cli[d]
    BY <2>1, <2>4, OneLetters DEF Current
  <2>6. ASSUME FiltersFinished, ChainInv PROVE ChainInv'
    BY <2>1, <2>2, <2>3, <2>5, <2>6 DEF ChainInv
  <2> QED
    BY <2>5, <2>6
<1>6. CASE RunCommand(c, line, found)
  <2> DEFINE callback == Callback(found.cmd)
             output == OutputOf(callback)
             right == Shown(install.chain, output) = Asked(line.filters, output)
             d == Called(s, callback)
             to == IF Quits(s, callback) THEN "none" ELSE d.state
             t == [d EXCEPT !.filters = <<>>, !.state = to]
  <2>1. /\ cli' = [cli EXCEPT ![c] = t]
        /\ intact' = [intact EXCEPT ![c] = intact[c] /\ right]
        /\ install.runs
    BY <1>6 DEF RunCommand
  <2>2. Recounts(s, d)
    BY <1>2, CalledCounts DEF Recounts
  <2>3. FiltersFinished /\ ChainInv => right
    <3>1. output \in {Output, <<>>}
      BY DEF OutputOf
    <3> QED
      BY <1>3, <2>1, <3>1
  <2> HIDE DEF s, d, to, right
  <2>4. /\ t.filters = <<>> /\ t.unique = d.unique
        /\ t.mode = d.mode /\ t.privilege = d.privilege
    BY <2>2 DEF Recounts, IsSession, Fields
  <2>5. Current(t)
    BY <2>2, <2>4 DEF Recounts, Current
  <2> HIDE DEF t
  <2>6. LettersInv' /\ cli'[c] = t /\ \A e \in Clis : e # c => cli'[e] = cli[e]
    BY <2>1, <2>5, OneLetters DEF Current
  <2>7. ASSUME FiltersFinished, ChainInv PROVE ChainInv'
    <3>1. intact' = [intact EXCEPT ![c] = TRUE]
      BY <2>1, <2>3, <2>7 DEF ChainInv
    <3>2. intact' \in [Clis -> BOOLEAN] /\ \A e \in Clis : intact'[e]
      BY <2>7, <3>1 DEF ChainInv
    <3> QED
      BY <2>4, <2>6, <2>7, <3>2 DEF ChainInv
  <2> QED
    BY <2>6, <2>7
<1> QED
  BY <1>1, <1>4, <1>5, <1>6

LEMMA StructureCounts ==
  ASSUME AccessInv, LettersInv, NEW c \in Clis,
         \/ Typed(c) \/ Waited(c) \/ BeginLoop(c) \/ EndLoop(c)
         \/ cli' = [cli EXCEPT ![c] = Blank] /\ UNCHANGED intact
  PROVE  LettersInv' /\ (FiltersFinished /\ ChainInv => ChainInv')
<1>1. CASE \/ \E user, help \in BOOLEAN : EnterName(c, user, help)
           \/ \E right \in BOOLEAN : EnterPassword(c, right) \/ EnterEnablePassword(c, right)
  BY <1>1, NameCounts, EnableCounts
<1>2. CASE \E line \in Lines : EnterLine(c, line)
  BY <1>2, LineCounts
<1>3. CASE LeaveModes(c)
  <2> DEFINE s == SetMode(cli[c], ModeExec)
  <2>1. cli' = [cli EXCEPT ![c] = s] /\ UNCHANGED intact /\ cli[c].state # "none"
    BY <1>3 DEF LeaveModes
  <2>2. Recounts(cli[c], s)
    <3>1. ModeExec \in Modes
      BY DEF Modes
    <3> QED
      BY <2>1, <3>1, Before, SetModeCounts DEF LettersInv
  <2> HIDE DEF s
  <2> QED
    BY <2>1, <2>2, OneCounts DEF Recounts, Current
<1>4. CASE UNCHANGED <<cli, intact>>
  BY <1>4 DEF LettersInv, Current, ChainInv
<1>5. CASE EndLoop(c)
  <2> DEFINE s == [cli[c] EXCEPT !.state = "none"]
  <2>1. cli' = [cli EXCEPT ![c] = s] /\ UNCHANGED intact
    BY <1>5 DEF EndLoop
  <2>2. s.state = "none" /\ s.filters = cli[c].filters /\ s.mode \in Modes
    BY Before DEF IsSession, Fields, LettersInv
  <2> HIDE DEF s
  <2> QED
    BY <2>1, <2>2, OneCounts
<1>6. CASE cli' = [cli EXCEPT ![c] = Blank] /\ UNCHANGED intact
  <2>1. Blank.state = "none" /\ Blank.filters = <<>> /\ Blank.mode \in Modes
    BY DEF Blank, Modes
  <2> HIDE DEF Blank
  <2> QED
    BY <1>6, <2>1, OneCounts
<1>7. Key(c) \/ Second(c) => UNCHANGED <<cli, intact>>
  BY DEF Key, Second
<1>8. TimeOut(c) => EndLoop(c)
  BY DEF TimeOut
<1> QED
  BY <1>1, <1>2, <1>3, <1>4, <1>5, <1>6, <1>7, <1>8, BeginCounts DEF Typed, Waited

LEMMA CountsStep ==
  ServerInv /\ AccessInv /\ LettersInv /\ [Next]_vars
    => LettersInv' /\ (FiltersFinished /\ ChainInv => ChainInv')
<1> SUFFICES ASSUME ServerInv, AccessInv, LettersInv, [Next]_vars
             PROVE  LettersInv' /\ (FiltersFinished /\ ChainInv => ChainInv')
  OBVIOUS
<1>1. CASE UNCHANGED sessionVars
  BY <1>1 DEF sessionVars, LettersInv, Current, ChainInv
<1>2. ASSUME NEW t \in Clis, Begin(t) \/ Serve(t) \/ Wait(t) \/ Leave(t) \/ Done(t)
      PROVE  LettersInv' /\ (FiltersFinished /\ ChainInv => ChainInv')
  <2> DEFINE c == own[t].cli
  <2>1. c \in Clis
    BY <1>2 DEF ServerInv, Begin, Serve, Wait, Leave, Done, Goto
  <2>2. \/ Typed(c) \/ Waited(c) \/ BeginLoop(c) \/ EndLoop(c)
        \/ cli' = [cli EXCEPT ![c] = Blank] /\ UNCHANGED intact
    BY <1>2 DEF Begin, Serve, Wait, Leave, Done
  <2> HIDE DEF c
  <2> QED
    BY <2>1, <2>2, StructureCounts
<1> QED
  BY <1>1, <1>2 DEF Next, Listen, Start, Run, Accept, SetCli, SetSocket, StartTask, FailTask,
                    ReadCli, ReadSocket, Fclose, Close, vars

LEMMA CountsInitial == Init => LettersInv /\ ChainInv
  BY DEF Init, InitSessions, LettersInv, ChainInv, Blank, Modes

(* A name that is shortened means one command, whatever changes of         *)
(* privilege and mode there have been since the letters were first counted *)
(* (cli_set_privilege, cli_set_configmode and cli_build_shortest).         *)
THEOREM ShortNamesMeanOne == Spec => []ShortNamesTell
<1>1. AccessInv /\ LettersInv => ShortNamesTell
  <2> SUFFICES ASSUME AccessInv, LettersInv,
                      NEW c \in Clis, cli[c].state # "none",
                      NEW d \in Cmds, Reached(cli[c].mode, cli[c].privilege)[d],
                      NEW word \in Prefixes(Table[d].name), Stands(word, d, cli[c].unique)
               PROVE  Means(word, d, cli[c].mode, cli[c].privilege)
    BY DEF ShortNamesTell
  <2> DEFINE mode == cli[c].mode
             privilege == cli[c].privilege
             reached == Reached(mode, privilege)
  <2>1. cli[c].unique = BuildShortest(cli[c].unique, mode, privilege)
    BY DEF LettersInv, Current
  <2>2. cli[c].unique[d] = IF Visible(d, mode, privilege) THEN Shortest(d, mode, privilege)
                           ELSE Len(Table[d].name)
    <3>1. reached[d]
      OBVIOUS
    <3> HIDE DEF mode, privilege
    <3>2. \A u : BuildShortest(u, mode, privilege) =
                   [x \in Cmds |-> IF ~reached[x] THEN u[x]
                                  ELSE IF Visible(x, mode, privilege) THEN Shortest(x, mode, privilege)
                                  ELSE Len(Table[x].name)]
      BY DEF BuildShortest
    <3> HIDE DEF reached
    <3> QED
      BY <2>1, <3>1, <3>2
  <2> HIDE DEF mode, privilege
  <2> QED
    BY <2>2, EnoughLettersTell DEF mode, privilege
<1>2. ServerInv /\ AccessInv /\ LettersInv /\ [Next]_vars => ServerInv' /\ AccessInv' /\ LettersInv'
  BY ServerStep, AccessStep, CountsStep
<1> QED
  BY <1>1, <1>2, ServerInitial, AccessInitial, CountsInitial, PTL DEF Spec

-----------------------------------------------------------------------------
LEMMA PathsAre ==
  \A c \in Lists : Path(c) \in Seq(Cmds)
<1> DEFINE n == Len(Table)
           S == {k \in 0 .. n : \A c \in 0 .. k : Path(c) \in Seq(Cmds)}
<1>1. /\ n \in Nat /\ Cmds = 1 .. n /\ Lists = 0 .. n /\ Root = 0
      /\ \A c \in Cmds : Table[c].parent < c /\ Table[c].parent \in Nat
  BY CommandsAreNumbers DEF Lists, Root
<1>2. 0 \in S
  <2>1. \A c \in 0 .. 0 : c = Root
    BY <1>1
  <2>2. Path(Root) \in Seq(Cmds)
    BY PathIs
  <2> QED
    BY <1>1, <2>1, <2>2
<1>3. ASSUME NEW k \in 0 .. (n - 1), k \in S
      PROVE  k + 1 \in S
  <2>1. \A c \in 0 .. k : Path(c) \in Seq(Cmds)
    BY <1>3
  <2>2. k + 1 \in Cmds /\ k + 1 \in 0 .. n /\ Table[k + 1].parent \in 0 .. k
    BY <1>1
  <2>3. Path(k + 1) = Append(Path(Table[k + 1].parent), k + 1)
    BY <2>2, PathIs
  <2>4. Path(k + 1) \in Seq(Cmds)
    <3>1. Path(Table[k + 1].parent) \in Seq(Cmds)
      BY <2>1, <2>2
    <3> QED
      BY <2>2, <2>3, <3>1, AppendProperties
  <2>5. \A c \in 0 .. (k + 1) : c \in 0 .. k \/ c = k + 1
    OBVIOUS
  <2> QED
    BY <2>1, <2>2, <2>4, <2>5
<1>4. \A k \in 0 .. (n - 1) : k \in S => k + 1 \in S
  BY <1>3
<1>5. n \in 0 .. n
  BY <1>1
<1>6. n \in S
  <2> HIDE DEF S, n
  <2>1. \A k \in 0 .. n : k \in S
    BY <1>1, <1>2, <1>4, AllHave
  <2> QED
    BY <1>5, <2>1
<1> QED
  BY <1>1, <1>6

(* What a search from the list p, at the word i and in the mode m, has     *)
(* come to: every word from i on means its part of the path.               *)
WordOk(word, c, mode, privilege) ==
  Table[c].privilege <= privilege /\ Means(word, c, mode, privilege)

Extends(q, p, i, n) ==
  /\ Len(Path(q)) \in i .. n
  /\ \A k \in 1 .. (i - 1) : Path(q)[k] = Path(p)[k]

IsMeant(r, p, i, m, words, privilege) ==
  /\ r.mode \in Modes
  /\ p # Root => r.mode = m
  /\ r.cmd # 0 =>
       /\ r.cmd \in Cmds
       /\ Extends(r.cmd, p, i, Len(words))
       /\ \A k \in i .. Len(Path(r.cmd)) :
            WordOk(words[k], Path(r.cmd)[k], r.mode, privilege)

AllMeant(find, i, words, privilege) ==
  \A p \in Lists, m \in Modes :
    Come(p, m, privilege) /\ Len(Path(p)) = i - 1
      => IsMeant(find[i][p][m], p, i, m, words, privilege)

(* The command chosen at a word, and the list below it.                    *)
LEMMA ChoiceMeans ==
  ASSUME ConfigBelowConfig,
         NEW p \in Lists, NEW m \in Modes, NEW privilege, Come(p, m, privilege),
         NEW unique, Tells(unique, m, privilege),
         NEW word \in Seq(STRING)
  PROVE  LET choice == Chosen(Hits(p, word, unique, privilege), m)
         IN  /\ choice.mode \in Modes
             /\ p # Root => choice.mode = m
             /\ choice.cmd # 0 =>
                  /\ choice.cmd \in Cmds /\ Table[choice.cmd].parent = p
                  /\ Come(choice.cmd, choice.mode, privilege)
                  /\ WordOk(word, choice.cmd, choice.mode, privilege)
<1> DEFINE hits == Hits(p, word, unique, privilege)
           choice == Chosen(hits, m)
           c == choice.cmd
<1>1. hits \subseteq Siblings(p) /\ hits \subseteq Cmds
  BY DEF Hits, Siblings
<1>2. Stays(choice, hits, m) \/ Leaves(choice, hits, m) \/ Fails(choice, hits, m)
  BY <1>1, ChoiceIs
<1>3. ModeConfig \in Modes /\ ModeConfig \in Int /\ ModeAny # ModeConfig /\ m \in Int
  BY DEF Modes, ModeConfig, ModeAny, ModeExec, ModeSub
<1>4. c \in hits =>
        /\ c \in Siblings(p) /\ c \in Cmds /\ Table[c].parent = p
        /\ Reached(m, privilege)[c]
        /\ Visible(c, m, privilege) => Come(c, m, privilege)
        /\ Table[c].privilege <= privilege
        /\ IsPrefix(word, Table[c].name)
        /\ Means(word, c, m, privilege)
        /\ ~Visible(c, m, privilege) => word = Table[c].name
  <2> HIDE DEF choice
  <2> QED
    BY <1>1, ComeReaches, HitMeans
<1> HIDE DEF choice, hits
<1>5. CASE Stays(choice, hits, m)
  <2>1. c \in hits /\ Table[c].mode \in {ModeAny, m} /\ choice.mode = m
    BY <1>5 DEF Stays, InMode
  <2>2. Visible(c, m, privilege)
    BY <1>4, <2>1 DEF Visible
  <2> QED
    BY <1>4, <2>1, <2>2 DEF WordOk, choice, hits
<1>6. CASE Leaves(choice, hits, m)
  <2>1. c \in hits /\ Table[c].mode = ModeConfig /\ choice.mode = ModeConfig /\ m > ModeConfig
    BY <1>6 DEF Leaves, InMode
  <2>2. m # ModeConfig
    BY <1>3, <2>1
  <2>3. p = Root
    <3> SUFFICES ASSUME p # Root PROVE FALSE
      OBVIOUS
    <3>1. Table[p].mode \in {ModeAny, m}
      BY DEF Come, Visible
    <3>2. Table[p].mode = ModeConfig
      BY <1>4, <2>1 DEF ConfigBelowConfig
    <3> QED
      BY <1>3, <2>2, <3>1, <3>2
  <2>4. Visible(c, ModeConfig, privilege) /\ ~Visible(c, m, privilege)
    BY <1>3, <1>4, <2>1, <2>2 DEF Visible
  <2>5. Come(c, ModeConfig, privilege)
    BY <1>4, <2>1, <2>3, <2>4, ReachedIs DEF Come
  <2>6. Means(word, c, ModeConfig, privilege)
    BY <1>4, <2>1, <2>4 DEF Means
  <2> QED
    BY <1>3, <1>4, <2>1, <2>3, <2>5, <2>6 DEF WordOk, choice, hits
<1>7. CASE Fails(choice, hits, m)
  BY <1>7 DEF Fails, choice, hits
<1> QED
  BY <1>2, <1>5, <1>6, <1>7

(* A command below the list p extends the path to p by itself.             *)
LEMMA PathBelow ==
  ASSUME NEW p \in Lists, NEW c \in Cmds, Table[c].parent = p,
         NEW i \in Nat \ {0}, Len(Path(p)) = i - 1
  PROVE  /\ Len(Path(c)) = i
         /\ Path(c)[i] = c
         /\ \A k \in 1 .. (i - 1) : Path(c)[k] = Path(p)[k]
<1>1. PICK s \in Seq(Cmds) : s = Path(p)
  BY PathsAre
<1>2. Path(c) = Append(s, c) /\ Len(s) = i - 1
  BY <1>1, PathIs
<1>3. Len(Append(s, c)) = i /\ Append(s, c)[i] = c
      /\ \A k \in 1 .. (i - 1) : Append(s, c)[k] = s[k]
  BY <1>2
<1> QED
  BY <1>1, <1>2, <1>3

LEMMA SearchStep ==
  ASSUME ConfigBelowConfig,
         NEW words, AreWords(words),
         NEW help, NEW unique, NEW mode, NEW privilege,
         unique = BuildShortest(unique, mode, privilege),
         NEW find, IsFind(find, words, help, unique, mode, privilege),
         NEW i \in 1 .. Len(words),
         i # Len(words) => AllMeant(find, i + 1, words, privilege)
  PROVE  AllMeant(find, i, words, privilege)
<1> SUFFICES ASSUME NEW p \in Lists, NEW m \in Modes, Come(p, m, privilege), Len(Path(p)) = i - 1
             PROVE  IsMeant(find[i][p][m], p, i, m, words, privilege)
  BY DEF AllMeant
<1> DEFINE hits == Hits(p, words[i], Counted(unique, mode, privilege, m), privilege)
           choice == Chosen(hits, m)
           c == choice.cmd
           after == IF i = Len(words) THEN <<>> ELSE find[i + 1]
           below == after[c][choice.mode]
           r == find[i][p][m]
<1>1. PICK n \in Nat : n = Len(words) /\ i \in 1 .. n
  BY DEF AreWords
<1>2. r = IF help /\ i = n THEN Nothing(FALSE, m)
          ELSE IF c = 0 THEN Nothing(TRUE, m)
          ELSE IF Siblings(c) = {} \/ i = n THEN Runs(c, choice.mode)
          ELSE IF below.arg /\ Callback(c) # "none" THEN Runs(c, below.mode)
          ELSE below
  <2>1. find[i] = FindAt(words, help, unique, mode, privilege, i, after)
    BY DEF IsFind, AreWords
  <2> HIDE DEF after
  <2>2. r = FoundAt(words, help, unique, mode, privilege, i, after, p, m)
    BY <2>1, FoundIs
  <2> QED
    BY <1>1, <2>2 DEF FoundAt
<1>3. /\ choice.mode \in Modes
      /\ p # Root => choice.mode = m
      /\ c # 0 =>
           /\ c \in Cmds /\ Table[c].parent = p
           /\ Come(c, choice.mode, privilege)
           /\ WordOk(words[i], c, choice.mode, privilege)
  <2>1. Tells(Counted(unique, mode, privilege, m), m, privilege)
    BY CountedIsRight
  <2>2. words[i] \in Seq(STRING)
    BY DEF AreWords
  <2> QED
    BY <2>1, <2>2, ChoiceMeans
<1>4. c # 0 => /\ Len(Path(c)) = i /\ Path(c)[i] = c
               /\ \A k \in 1 .. (i - 1) : Path(c)[k] = Path(p)[k]
  BY <1>1, <1>3, PathBelow
<1>5. c # 0 /\ i # n => IsMeant(below, c, i + 1, choice.mode, words, privilege)
  <2> SUFFICES ASSUME c # 0, i # n
               PROVE  IsMeant(below, c, i + 1, choice.mode, words, privilege)
    OBVIOUS
  <2>1. AllMeant(find, i + 1, words, privilege)
    BY <1>1
  <2>2. c \in Lists /\ Len(Path(c)) = (i + 1) - 1
    BY <1>1, <1>3, <1>4 DEF Lists
  <2>3. below = find[i + 1][c][choice.mode]
    BY <1>1
  <2> HIDE DEF below, choice
  <2> QED
    BY <1>3, <2>1, <2>2, <2>3 DEF AllMeant
<1> HIDE DEF hits, choice, after, below, r
<1>6. ASSUME NEW mode1, c # 0, mode1 = choice.mode
      PROVE  IsMeant(Runs(c, mode1), p, i, m, words, privilege)
  <2>1. Runs(c, mode1).mode = choice.mode /\ Runs(c, mode1).cmd \in {0, c}
    BY <1>6 DEF Runs
  <2>2. Extends(c, p, i, Len(words))
    BY <1>1, <1>4, <1>6 DEF Extends
  <2>3. \A k \in i .. Len(Path(c)) : k = i
    BY <1>1, <1>4, <1>6
  <2>4. \A k \in i .. Len(Path(c)) : WordOk(words[k], Path(c)[k], choice.mode, privilege)
    BY <1>3, <1>4, <1>6, <2>3
  <2> QED
    BY <1>3, <1>6, <2>1, <2>2, <2>4 DEF IsMeant
<1>7. ASSUME NEW arg PROVE IsMeant(Nothing(arg, m), p, i, m, words, privilege)
  BY DEF IsMeant, Nothing
<1>8. c # 0 /\ i # n => below.mode = choice.mode
  BY <1>3, <1>5, CommandsAreNumbers DEF IsMeant, Root
<1>9. ASSUME c # 0, i # n PROVE IsMeant(below, p, i, m, words, privilege)
  <2>1. below.mode = choice.mode
    BY <1>8, <1>9
  <2>2. ASSUME below.cmd # 0
        PROVE  /\ below.cmd \in Cmds
               /\ Extends(below.cmd, p, i, Len(words))
               /\ \A k \in i .. Len(Path(below.cmd)) :
                    WordOk(words[k], Path(below.cmd)[k], below.mode, privilege)
    <3> DEFINE q == below.cmd
    <3>1. /\ q \in Cmds /\ Len(Path(q)) \in (i + 1) .. Len(words)
          /\ \A k \in 1 .. ((i + 1) - 1) : Path(q)[k] = Path(c)[k]
          /\ \A k \in (i + 1) .. Len(Path(q)) :
               WordOk(words[k], Path(q)[k], below.mode, privilege)
      BY <1>5, <1>9, <2>2 DEF IsMeant, Extends
    <3> HIDE DEF q
    <3>2. \A k \in 1 .. i : Path(q)[k] = Path(c)[k]
      BY <1>1, <3>1
    <3>3. Len(Path(q)) \in i .. n /\ Len(Path(q)) \in Int
      BY <1>1, <3>1
    <3>4. Extends(q, p, i, Len(words))
      <4>1. \A k \in 1 .. (i - 1) : k \in 1 .. i
        BY <1>1
      <4>2. \A k \in 1 .. (i - 1) : Path(q)[k] = Path(p)[k]
        BY <1>4, <1>9, <3>2, <4>1
      <4> QED
        BY <1>1, <3>3, <4>2 DEF Extends
    <3>5. WordOk(words[i], Path(q)[i], below.mode, privilege)
      BY <1>1, <1>3, <1>4, <1>9, <2>1, <3>2
    <3>6. \A k \in i .. Len(Path(q)) : k = i \/ k \in (i + 1) .. Len(Path(q))
      BY <1>1, <3>3
    <3>7. \A k \in i .. Len(Path(q)) : WordOk(words[k], Path(q)[k], below.mode, privilege)
      BY <3>1, <3>5, <3>6
    <3> QED
      BY <3>1, <3>4, <3>7 DEF q
  <2> QED
    BY <1>3, <2>1, <2>2 DEF IsMeant
<1>10. IsMeant(r, p, i, m, words, privilege)
  <2>1. CASE help /\ i = n
    BY <1>2, <1>7, <2>1
  <2>2. CASE ~(help /\ i = n) /\ c = 0
    BY <1>2, <1>7, <2>2
  <2>3. CASE ~(help /\ i = n) /\ c # 0 /\ (Siblings(c) = {} \/ i = n)
    BY <1>2, <1>6, <2>3
  <2>4. CASE c # 0 /\ ~(Siblings(c) = {} \/ i = n)
    BY <1>2, <1>6, <1>8, <1>9, <2>4
  <2> QED
    BY <2>1, <2>2, <2>3, <2>4
<1> QED
  BY <1>10 DEF r

LEMMA SearchMeans ==
  ASSUME ConfigBelowConfig,
         NEW words, AreWords(words),
         NEW help, NEW unique, NEW mode, NEW privilege,
         unique = BuildShortest(unique, mode, privilege),
         NEW find, IsFind(find, words, help, unique, mode, privilege)
  PROVE  AllMeant(find, 1, words, privilege)
<1>1. PICK n \in Nat : n = Len(words) /\ n >= 1
  BY DEF AreWords
<1> DEFINE S == {k \in 0 .. (n - 1) : AllMeant(find, n - k, words, privilege)}
<1>2. ASSUME NEW k \in 0 .. (n - 1), k # 0 => AllMeant(find, (n - k) + 1, words, privilege)
      PROVE  AllMeant(find, n - k, words, privilege)
  <2> DEFINE i == n - k
  <2>1. i \in 1 .. Len(words) /\ (i # Len(words) => k # 0)
    BY <1>1
  <2>2. i # Len(words) => AllMeant(find, i + 1, words, privilege)
    BY <1>2, <2>1
  <2> HIDE DEF i
  <2>3. AllMeant(find, i, words, privilege)
    BY <2>1, <2>2, SearchStep
  <2> QED
    BY <2>3 DEF i
<1>3. 0 \in S
  BY <1>1, <1>2
<1>4. ASSUME NEW k \in 0 .. ((n - 1) - 1), k \in S PROVE k + 1 \in S
  <2>1. k + 1 \in 0 .. (n - 1) /\ (n - (k + 1)) + 1 = n - k
    BY <1>1
  <2>2. AllMeant(find, (n - (k + 1)) + 1, words, privilege)
    BY <1>4, <2>1
  <2>3. AllMeant(find, n - (k + 1), words, privilege)
    BY <1>2, <2>1, <2>2
  <2> QED
    BY <2>1, <2>3
<1>5. n - 1 \in S
  <2>1. n - 1 \in Nat /\ n - 1 \in 0 .. (n - 1)
    BY <1>1
  <2>2. \A k \in 0 .. ((n - 1) - 1) : k \in S => k + 1 \in S
    BY <1>4
  <2> HIDE DEF S
  <2>3. \A k \in 0 .. (n - 1) : k \in S
    BY <1>3, <2>1, <2>2, AllHave
  <2> QED
    BY <2>1, <2>3
<1>6. n - (n - 1) = 1
  BY <1>1
<1> QED
  BY <1>5, <1>6

(* Every word of whatever could be typed at the prompt means its part of   *)
(* the command that would run, and may be used, if the application has its *)
(* commands of configuration below none but others of configuration        *)
(* (cli_find_command and cli_build_shortest, base_cli_lib.c:661 and 265).  *)
THEOREM LinesMeanTheirCommand ==
  ASSUME ConfigBelowConfig
  PROVE  Spec => []RunsWhatIsMeant
<1>1. AccessInv /\ LettersInv => RunsWhatIsMeant
  <2> SUFFICES ASSUME AccessInv, LettersInv,
                      NEW c \in Clis, AtPrompt(c), NEW line \in Lines,
                      FindLine(cli[c], line).cmd # 0,
                      NEW k \in DOMAIN Path(FindLine(cli[c], line).cmd)
               PROVE  LET found == FindLine(cli[c], line)
                      IN  WordOk(line.words[k], Path(found.cmd)[k], found.mode, cli[c].privilege)
    BY DEF RunsWhatIsMeant, WordOk
  <2> DEFINE unique == cli[c].unique
             mode == cli[c].mode
             privilege == cli[c].privilege
             words == line.words
             found == FindLine(cli[c], line)
  <2>1. mode \in Modes /\ unique = BuildShortest(unique, mode, privilege)
    BY DEF LettersInv, Current, AtPrompt
  <2>2. AreWords(words)
    BY LinesAreWords
  <2> DEFINE help == line.help
  <2>0. found = Find(words, help, unique, mode, privilege)
    BY DEF FindLine
  <2> HIDE DEF unique, mode, privilege, words, found, help
  <2>3. PICK find : /\ IsFind(find, words, help, unique, mode, privilege)
                    /\ found = find[1][Root][mode]
    BY <2>0, <2>2, FindIs DEF AreWords
  <2>4. AllMeant(find, 1, words, privilege)
    BY <2>1, <2>2, <2>3, SearchMeans
  <2>5. IsMeant(found, Root, 1, mode, words, privilege)
    <3>1. Root \in Lists /\ Come(Root, mode, privilege) /\ Len(Path(Root)) = 1 - 1
      BY PathIs DEF Lists, Come
    <3> QED
      BY <2>1, <2>3, <2>4, <3>1 DEF AllMeant
  <2>6. found.cmd \in Cmds /\ k \in DOMAIN Path(found.cmd)
    BY <2>5 DEF IsMeant, found
  <2>7. k \in 1 .. Len(Path(found.cmd))
    <3>1. Path(found.cmd) \in Seq(Cmds)
      BY <2>6, PathsAre DEF Lists
    <3> QED
      BY <2>6, <3>1, LenProperties
  <2>8. WordOk(words[k], Path(found.cmd)[k], found.mode, privilege)
    BY <2>5, <2>7 DEF IsMeant, found
  <2> QED
    BY <2>8 DEF words, found, privilege
<1>2. ServerInv /\ AccessInv /\ LettersInv /\ [Next]_vars => ServerInv' /\ AccessInv' /\ LettersInv'
  BY ServerStep, AccessStep, CountsStep
<1> QED
  BY <1>1, <1>2, ServerInitial, AccessInitial, CountsInitial, PTL DEF Spec

-----------------------------------------------------------------------------
(* A hit that can be seen keeps the search where it is.                    *)
LEMMA VisibleStays ==
  ASSUME NamesApart,
         NEW p \in Lists, NEW m \in Modes, NEW privilege, Come(p, m, privilege),
         NEW unique, Tells(unique, m, privilege), NEW word \in Seq(STRING),
         NEW d \in Hits(p, word, unique, privilege), Visible(d, m, privilege)
  PROVE  LET choice == Chosen(Hits(p, word, unique, privilege), m)
         IN  /\ choice.mode = m
             /\ choice.cmd \in Hits(p, word, unique, privilege) \cap Cmds
             /\ Visible(choice.cmd, m, privilege)
<1> DEFINE hits == Hits(p, word, unique, privilege)
           choice == Chosen(hits, m)
           c == choice.cmd
<1>1. /\ hits \subseteq Cmds
      /\ \A x \in hits : x \in Siblings(p) /\ Table[x].parent = p /\ Table[x].privilege <= privilege
  BY DEF Hits, Siblings
<1>2. d \in hits /\ Table[d].mode \in {ModeAny, m}
  BY DEF Visible
<1>3. \A x \in hits : /\ IsPrefix(word, Table[x].name)
                      /\ ~Visible(x, m, privilege) => word = Table[x].name
  BY HitMeans
<1> HIDE DEF hits
<1>4. Stays(choice, hits, m) \/ Leaves(choice, hits, m) \/ Fails(choice, hits, m)
  BY <1>1, ChoiceIs
<1> HIDE DEF choice
<1>5. ~Fails(choice, hits, m)
  BY <1>2 DEF Fails, InMode
<1>6. ~Leaves(choice, hits, m)
  <2> SUFFICES ASSUME Leaves(choice, hits, m) PROVE FALSE
    OBVIOUS
  <2>1. c \in hits /\ Table[c].mode = ModeConfig /\ m > ModeConfig
    BY DEF Leaves, InMode
  <2>2. m # ModeConfig /\ ModeAny # ModeConfig
    BY <2>1 DEF Modes, ModeAny, ModeExec, ModeConfig, ModeSub
  <2>3. ~Visible(c, m, privilege)
    BY <2>1, <2>2 DEF Visible
  <2>4. word = Table[c].name
    BY <1>3, <2>1, <2>3
  <2>5. Table[d].mode = ModeAny
    BY <1>2 DEF Leaves, InMode
  <2>6. IsPrefix(Table[c].name, Table[d].name)
    BY <1>2, <1>3, <2>4
  <2> QED
    BY <1>1, <1>2, <2>1, <2>5, <2>6 DEF NamesApart
<1>7. Stays(choice, hits, m)
  BY <1>4, <1>5, <1>6
<1>8. c \in hits /\ Table[c].mode \in {ModeAny, m} /\ choice.mode = m
  BY <1>7 DEF Stays, InMode
<1>9. Visible(c, m, privilege)
  BY <1>1, <1>8 DEF Visible
<1> QED
  BY <1>1, <1>8, <1>9 DEF choice, hits

(* The line that Tab completes with d comes to a command.                  *)
Completed(words, d) == [words EXCEPT ![Len(words)] = Table[d].name]

AllFound(find, offered, i, d, mode, privilege) ==
  \A p \in Lists :
    Come(p, mode, privilege) /\ d \in offered[i][p]
      => ~find[i][p][mode].arg /\ find[i][p][mode].mode = mode

OfferedFrom(words, unique, mode, privilege, i, after, p) ==
  LET Fits(c) == Visible(c, mode, privilege) /\ IsPrefix(words[i], Table[c].name)
      down == {c \in Siblings(p) : Fits(c) /\ Len(words[i]) >= unique[c]}
  IN  IF i = Len(words) THEN {c \in Siblings(p) : Fits(c)}
      ELSE IF down = {} THEN {} ELSE after[Min(down)]

LEMMA OfferedFromIs ==
  ASSUME NEW words, NEW unique, NEW mode, NEW privilege, NEW i, NEW after, NEW p \in Lists
  PROVE  OfferedAt(words, unique, mode, privilege, i, after)[p]
           = OfferedFrom(words, unique, mode, privilege, i, after, p)
<1> DEFINE F(q) == OfferedFrom(words, unique, mode, privilege, i, after, q)
<1>1. OfferedAt(words, unique, mode, privilege, i, after) = [q \in Lists |-> F(q)]
  BY DEF OfferedAt, OfferedFrom
<1> HIDE DEF F
<1>2. OfferedAt(words, unique, mode, privilege, i, after)[p] = F(p)
  BY <1>1
<1> QED
  BY <1>2 DEF F

LEMMA CompletedIs ==
  ASSUME NEW words, AreWords(words), NEW d \in Cmds
  PROVE  /\ AreWords(Completed(words, d)) /\ Len(Completed(words, d)) = Len(words)
         /\ \A i \in 1 .. Len(words) :
              Completed(words, d)[i] = IF i = Len(words) THEN Table[d].name ELSE words[i]
<1> DEFINE W == Seq(STRING)
           name == Table[d].name
<1>1. words \in Seq(W) /\ Len(words) \in 1 .. Len(words) /\ name \in W
      /\ \A i \in 1 .. Len(words) : words[i] \in W
  BY NamesAreWords DEF AreWords
<1>2. Completed(words, d) = [words EXCEPT ![Len(words)] = name]
  BY DEF Completed
<1> HIDE DEF W, name
<1>3. /\ Completed(words, d) \in Seq(W)
      /\ Len(Completed(words, d)) = Len(words)
      /\ \A i \in 1 .. Len(words) :
           Completed(words, d)[i] = IF i = Len(words) THEN name ELSE words[i]
  BY <1>1, <1>2, ExceptSeq
<1>4. DOMAIN Completed(words, d) = 1 .. Len(words)
  BY <1>3, LenProperties
<1>5. \A i \in 1 .. Len(words) : Completed(words, d)[i] \in W
  BY <1>1, <1>3
<1> QED
  BY <1>3, <1>4, <1>5 DEF AreWords, W, name

LEMMA CompletionStep ==
  ASSUME NamesApart,
         NEW words, AreWords(words), NEW d \in Cmds,
         NEW unique, NEW mode \in Modes, NEW privilege,
         unique = BuildShortest(unique, mode, privilege),
         NEW find, IsFind(find, Completed(words, d), FALSE, unique, mode, privilege),
         NEW offered, IsOffered(offered, words, unique, mode, privilege),
         NEW i \in 1 .. Len(words),
         i # Len(words) => AllFound(find, offered, i + 1, d, mode, privilege)
  PROVE  AllFound(find, offered, i, d, mode, privilege)
<1> SUFFICES ASSUME NEW p \in Lists, Come(p, mode, privilege), d \in offered[i][p]
             PROVE  ~find[i][p][mode].arg /\ find[i][p][mode].mode = mode
  BY DEF AllFound
<1> DEFINE n == Len(words)
           word == Completed(words, d)[i]
           hits == Hits(p, word, unique, privilege)
           choice == Chosen(hits, mode)
           c == choice.cmd
           after == IF i = n THEN <<>> ELSE find[i + 1]
           below == after[c][choice.mode]
           next == IF i = n THEN <<>> ELSE offered[i + 1]
           Fits(x) == Visible(x, mode, privilege) /\ IsPrefix(words[i], Table[x].name)
           down == {x \in Siblings(p) : Fits(x) /\ Len(words[i]) >= unique[x]}
           r == find[i][p][mode]
<1>1. /\ AreWords(Completed(words, d)) /\ Len(Completed(words, d)) = n
      /\ word = IF i = n THEN Table[d].name ELSE words[i]
      /\ word \in Seq(STRING) /\ i \in 1 .. n /\ n \in Nat
  BY CompletedIs DEF AreWords
<1>2. r = FoundAt(Completed(words, d), FALSE, unique, mode, privilege, i, after, p, mode)
  <2>1. find[i] = FindAt(Completed(words, d), FALSE, unique, mode, privilege, i, after)
    BY <1>1 DEF IsFind, AreWords
  <2> DEFINE help == FALSE
             line == Completed(words, d)
  <2>2. find[i] = FindAt(line, help, unique, mode, privilege, i, after)
    BY <2>1
  <2> HIDE DEF after, help, line
  <2>3. r = FoundAt(line, help, unique, mode, privilege, i, after, p, mode)
    BY <2>2, FoundIs
  <2> QED
    BY <2>3 DEF help, line
<1>3. r = IF c = 0 THEN Nothing(TRUE, mode)
          ELSE IF Siblings(c) = {} \/ i = n THEN Runs(c, choice.mode)
          ELSE IF below.arg /\ Callback(c) # "none" THEN Runs(c, below.mode)
          ELSE below
  BY <1>1, <1>2 DEF FoundAt, Counted
<1>4. offered[i][p] = IF i = n THEN {x \in Siblings(p) : Fits(x)}
                      ELSE IF down = {} THEN {} ELSE next[Min(down)]
  <2>1. offered[i] = OfferedAt(words, unique, mode, privilege, i, next)
    BY DEF IsOffered, AreWords
  <2> HIDE DEF next
  <2>2. offered[i][p] = OfferedFrom(words, unique, mode, privilege, i, next, p)
    BY <2>1, OfferedFromIs
  <2> QED
    BY <2>2 DEF OfferedFrom
<1>5. Tells(unique, mode, privilege)
  BY BuiltIsRight
<1>6. ASSUME NEW x \in hits, Visible(x, mode, privilege)
      PROVE  choice.mode = mode /\ c \in hits \cap Cmds /\ Visible(c, mode, privilege)
  <2> HIDE DEF word
  <2> QED
    BY <1>1, <1>5, <1>6, VisibleStays
<1> HIDE DEF choice, r
<1>7. CASE i = n
  <2>1. d \in Siblings(p) /\ Visible(d, mode, privilege) /\ word = Table[d].name
    BY <1>1, <1>4, <1>7
  <2>2. d \in hits
    <3>1. IsPrefix(word, Table[d].name)
      <4>1. PICK name \in Seq(STRING) : name = Table[d].name
        BY NamesAreWords
      <4>2. IsPrefix(name, name)
        BY DEF IsPrefix
      <4> QED
        BY <2>1, <4>1, <4>2
    <3> HIDE DEF word
    <3> QED
      BY <2>1, <3>1 DEF Hits, Stands, Visible
  <2>3. choice.mode = mode /\ c \in Cmds
    BY <1>6, <2>1, <2>2
  <2>4. r = Runs(c, mode)
    BY <1>3, <1>7, <2>3, CommandsAreNumbers DEF Root
  <2> QED
    BY <2>4 DEF r, Runs
<1>8. CASE i # n
  <2> DEFINE e == Min(down)
  <2>1. down # {} /\ d \in next[e] /\ word = words[i]
    BY <1>1, <1>4, <1>8
  <2>2. e \in down
    <3>1. down \subseteq Nat
      <4>1. \A x \in Siblings(p) : x \in Nat
        BY CommandsAreNumbers DEF Siblings
      <4> QED
        BY <4>1
    <3> HIDE DEF down
    <3> QED
      BY <2>1, <3>1, LeastOf
  <2> HIDE DEF e
  <2>3. /\ e \in Siblings(p) /\ Visible(e, mode, privilege)
        /\ IsPrefix(word, Table[e].name) /\ Len(word) >= unique[e]
    BY <2>1, <2>2
  <2> HIDE DEF down, word
  <2>4. e \in Cmds /\ Table[e].parent = p /\ Reached(mode, privilege)[e] /\ Come(e, mode, privilege)
    BY <2>3, ComeReaches
  <2>5. e \in hits
    BY <2>3 DEF Hits, Stands, Visible
  <2>6. choice.mode = mode /\ c \in hits /\ c \in Cmds /\ Visible(c, mode, privilege)
    BY <1>6, <2>3, <2>5
  <2>7. c = e
    <3>1. Len(word) >= Shortest(e, mode, privilege)
      BY <1>5, <2>3, <2>4 DEF Tells
    <3>2. c \in Siblings(Table[e].parent) /\ IsPrefix(word, Table[c].name)
      BY <2>4, <2>6 DEF Hits, Stands
    <3>3. word \in Prefixes(Table[e].name)
      BY <1>1, <2>3, <2>4, PrefixIs
    <3> QED
      BY <2>3, <2>4, <2>6, <3>1, <3>2, <3>3, EnoughIsOne
  <2>8. next[e] = offered[i + 1][e] /\ below = find[i + 1][e][mode] /\ e \in Lists
    BY <1>8, <2>4, <2>6, <2>7 DEF Lists
  <2>9. ~below.arg /\ below.mode = mode
    BY <1>8, <2>1, <2>4, <2>8 DEF AllFound
  <2>10. c # 0
    BY <2>6, CommandsAreNumbers DEF Root
  <2>11. r = Runs(c, mode) \/ r = below
    BY <1>3, <1>8, <2>6, <2>9, <2>10
  <2>12. Runs(c, mode).arg = FALSE /\ Runs(c, mode).mode = mode
    BY DEF Runs
  <2> HIDE DEF below
  <2> QED
    BY <2>9, <2>11, <2>12 DEF r
<1> QED
  BY <1>7, <1>8

(* What is found of a line without a question mark.                        *)
Answers(found, line, unique, mode, privilege) ==
  \E find : /\ IsFind(find, line, FALSE, unique, mode, privilege)
            /\ found = find[1][Root][mode]

LEMMA FindAnswers ==
  ASSUME NEW line, AreWords(line), NEW unique, NEW mode, NEW privilege,
         NEW help, help = FALSE
  PROVE  Answers(Find(line, help, unique, mode, privilege), line, unique, mode, privilege)
<1>1. PICK find : /\ IsFind(find, line, help, unique, mode, privilege)
                  /\ Find(line, help, unique, mode, privilege) = find[1][Root][mode]
  <2>1. Len(line) \in Nat /\ DOMAIN line = 1 .. Len(line)
    BY DEF AreWords
  <2> QED
    BY <2>1, FindIs
<1>2. IsFind(find, line, FALSE, unique, mode, privilege)
  BY <1>1
<1> QED
  BY <1>1, <1>2 DEF Answers

LEMMA CompletionIsFound ==
  ASSUME NamesApart,
         NEW words, AreWords(words), NEW d \in Cmds,
         NEW unique, NEW mode \in Modes, NEW privilege,
         unique = BuildShortest(unique, mode, privilege),
         d \in Completions(words, unique, mode, privilege),
         NEW found, Answers(found, Completed(words, d), unique, mode, privilege)
  PROVE  ~found.arg /\ found.mode = mode
<1>1. PICK n \in Nat : n = Len(words) /\ n >= 1
  BY DEF AreWords
<1>2. PICK find : /\ IsFind(find, Completed(words, d), FALSE, unique, mode, privilege)
                  /\ found = find[1][Root][mode]
  BY DEF Answers
<1>3. PICK offered : /\ IsOffered(offered, words, unique, mode, privilege)
                     /\ Completions(words, unique, mode, privilege) = offered[1][Root]
  BY OfferedIs DEF AreWords
<1> DEFINE S == {k \in 0 .. (n - 1) : AllFound(find, offered, n - k, d, mode, privilege)}
<1>4. ASSUME NEW k \in 0 .. (n - 1),
             k # 0 => AllFound(find, offered, (n - k) + 1, d, mode, privilege)
      PROVE  AllFound(find, offered, n - k, d, mode, privilege)
  <2> DEFINE i == n - k
  <2>1. i \in 1 .. Len(words) /\ (i # Len(words) => k # 0)
    BY <1>1
  <2>2. i # Len(words) => AllFound(find, offered, i + 1, d, mode, privilege)
    BY <1>4, <2>1
  <2> HIDE DEF i
  <2>3. AllFound(find, offered, i, d, mode, privilege)
    BY <1>2, <1>3, <2>1, <2>2, CompletionStep
  <2> QED
    BY <2>3 DEF i
<1>5. 0 \in S
  BY <1>1, <1>4
<1>6. ASSUME NEW k \in 0 .. ((n - 1) - 1), k \in S PROVE k + 1 \in S
  <2>1. k + 1 \in 0 .. (n - 1) /\ (n - (k + 1)) + 1 = n - k
    BY <1>1
  <2>2. AllFound(find, offered, (n - (k + 1)) + 1, d, mode, privilege)
    BY <1>6, <2>1
  <2>3. AllFound(find, offered, n - (k + 1), d, mode, privilege)
    BY <1>4, <2>1, <2>2
  <2> QED
    BY <2>1, <2>3
<1>7. n - 1 \in S
  <2>1. n - 1 \in Nat /\ n - 1 \in 0 .. (n - 1)
    BY <1>1
  <2>2. \A k \in 0 .. ((n - 1) - 1) : k \in S => k + 1 \in S
    BY <1>6
  <2> HIDE DEF S
  <2>3. \A k \in 0 .. (n - 1) : k \in S
    BY <1>5, <2>1, <2>2, AllHave
  <2> QED
    BY <2>1, <2>3
<1>8. AllFound(find, offered, 1, d, mode, privilege)
  <2>1. n - (n - 1) = 1
    BY <1>1
  <2> QED
    BY <1>7, <2>1
<1>9. Root \in Lists /\ Come(Root, mode, privilege) /\ d \in offered[1][Root]
  BY <1>3 DEF Lists, Come
<1> QED
  BY <1>2, <1>8, <1>9 DEF AllFound

(* Tab offers what can be seen.                                            *)
LEMMA OfferedAreCommands ==
  ASSUME NEW words, AreWords(words), NEW unique, NEW mode, NEW privilege
  PROVE  Completions(words, unique, mode, privilege) \subseteq Cmds
<1>1. PICK offered : /\ IsOffered(offered, words, unique, mode, privilege)
                     /\ Completions(words, unique, mode, privilege) = offered[1][Root]
  BY OfferedIs DEF AreWords
<1>2. PICK n \in Nat : n = Len(words) /\ n >= 1
  BY DEF AreWords
<1> DEFINE Only(i) == \A p \in Lists : offered[i][p] \subseteq Cmds
           S == {k \in 0 .. (n - 1) : Only(n - k)}
<1>3. ASSUME NEW i \in 1 .. n, i # n => Only(i + 1)
      PROVE  Only(i)
  <2> SUFFICES ASSUME NEW p \in Lists PROVE offered[i][p] \subseteq Cmds
    OBVIOUS
  <2> DEFINE after == IF i = n THEN <<>> ELSE offered[i + 1]
             Fits(c) == Visible(c, mode, privilege) /\ IsPrefix(words[i], Table[c].name)
             down == {c \in Siblings(p) : Fits(c) /\ Len(words[i]) >= unique[c]}
  <2>1. offered[i] = OfferedAt(words, unique, mode, privilege, i, after)
    BY <1>1, <1>2 DEF IsOffered, AreWords
  <2> HIDE DEF after
  <2>2. offered[i][p] = OfferedFrom(words, unique, mode, privilege, i, after, p)
    BY <2>1, OfferedFromIs
  <2>3. offered[i][p] = IF i = n THEN {c \in Siblings(p) : Fits(c)}
                        ELSE IF down = {} THEN {} ELSE after[Min(down)]
    BY <1>2, <2>2 DEF OfferedFrom
  <2>4. \A c \in Siblings(p) : c \in Cmds /\ c \in Nat /\ c \in Lists
    BY CommandsAreNumbers DEF Siblings, Lists
  <2>5. i # n /\ down # {} => after[Min(down)] \subseteq Cmds
    <3>1. down \subseteq Siblings(p)
      OBVIOUS
    <3> HIDE DEF down
    <3>2. down # {} => Min(down) \in down
      <4>1. down \subseteq Nat
        BY <2>4, <3>1
      <4> QED
        BY <4>1, LeastOf
    <3> QED
      BY <1>3, <2>4, <3>1, <3>2 DEF after
  <2> HIDE DEF down
  <2> QED
    BY <2>3, <2>4, <2>5
<1> HIDE DEF Only
<1>4. ASSUME NEW k \in 0 .. (n - 1), k # 0 => Only((n - k) + 1)
      PROVE  Only(n - k)
  <2>1. n - k \in 1 .. n /\ (n - k # n => k # 0)
    BY <1>2
  <2> QED
    BY <1>3, <1>4, <2>1
<1>5. 0 \in S
  BY <1>2, <1>4
<1>6. ASSUME NEW k \in 0 .. ((n - 1) - 1), k \in S PROVE k + 1 \in S
  <2>1. k + 1 \in 0 .. (n - 1) /\ (n - (k + 1)) + 1 = n - k
    BY <1>2
  <2>2. Only((n - (k + 1)) + 1)
    BY <1>6, <2>1
  <2>3. Only(n - (k + 1))
    BY <1>4, <2>1, <2>2
  <2> QED
    BY <2>1, <2>3
<1>7. n - 1 \in S
  <2>1. n - 1 \in Nat /\ n - 1 \in 0 .. (n - 1)
    BY <1>2
  <2>2. \A k \in 0 .. ((n - 1) - 1) : k \in S => k + 1 \in S
    BY <1>6
  <2> HIDE DEF S
  <2>3. \A k \in 0 .. (n - 1) : k \in S
    BY <1>5, <2>1, <2>2, AllHave
  <2> QED
    BY <2>1, <2>3
<1>8. Only(1)
  <2>1. n - (n - 1) = 1
    BY <1>2
  <2> QED
    BY <1>7, <2>1
<1> QED
  BY <1>1, <1>8 DEF Only, Lists

(* A name that Tab offers is found when the line it completes is run, and  *)
(* in the mode it was offered in, if the application has no name of a      *)
(* command of configuration begin one beside it that has no mode           *)
(* (cli_get_completions and cli_find_command, base_cli_lib.c:898 and 661). *)
THEOREM CompletionsAreFound ==
  ASSUME NamesApart
  PROVE  Spec => []CompletionsRun
<1>1. AccessInv /\ LettersInv => CompletionsRun
  <2> SUFFICES ASSUME AccessInv, LettersInv,
                      NEW c \in Clis, AtPrompt(c), NEW line \in Lines,
                      NEW d \in Completions(line.words, cli[c].unique, cli[c].mode, cli[c].privilege)
               PROVE  LET found == Find(Completed(line.words, d), FALSE, cli[c].unique,
                                        cli[c].mode, cli[c].privilege)
                      IN  ~found.arg /\ found.mode = cli[c].mode
    BY DEF CompletionsRun, Completed
  <2> DEFINE unique == cli[c].unique
             mode == cli[c].mode
             privilege == cli[c].privilege
             words == line.words
  <2>1. mode \in Modes /\ unique = BuildShortest(unique, mode, privilege)
    BY DEF LettersInv, Current, AtPrompt
  <2>2. AreWords(words)
    BY LinesAreWords
  <2>3. d \in Completions(words, unique, mode, privilege)
    OBVIOUS
  <2>4. d \in Cmds
    BY <2>2, <2>3, OfferedAreCommands
  <2> DEFINE help == FALSE
             found == Find(Completed(words, d), help, unique, mode, privilege)
  <2>5. AreWords(Completed(words, d)) /\ help = FALSE
    BY <2>2, <2>4, CompletedIs
  <2> HIDE DEF help
  <2>6. Answers(found, Completed(words, d), unique, mode, privilege)
    BY <2>5, FindAnswers
  <2> HIDE DEF found
  <2>7. ~found.arg /\ found.mode = mode
    BY <2>1, <2>2, <2>3, <2>4, <2>6, CompletionIsFound
  <2> QED
    BY <2>7 DEF unique, mode, privilege, words, help, found
<1>2. ServerInv /\ AccessInv /\ LettersInv /\ [Next]_vars => ServerInv' /\ AccessInv' /\ LettersInv'
  BY ServerStep, AccessStep, CountsStep
<1> QED
  BY <1>1, <1>2, ServerInitial, AccessInitial, CountsInitial, PTL DEF Spec

-----------------------------------------------------------------------------
(* The output of every command, whatever it prints, comes through the      *)
(* filters of its own line, and what comes out is what these ask of it as  *)
(* a whole: if no filter of a line is left incomplete behind one that is   *)
(* complete, nothing of one line is left for the next one                  *)
(* (base_cli_lib.c:763-834, 1678-1701, 1829-1949).                         *)
THEOREM FiltersAreOwn ==
  ASSUME FiltersFinished
  PROVE  Spec => []OutputAsAsked
<1>1. ChainInv => OutputAsAsked
  BY DEF ChainInv, OutputAsAsked
<1>2. /\ ServerInv /\ AccessInv /\ LettersInv /\ ChainInv
      /\ [Next]_vars
      => ServerInv' /\ AccessInv' /\ LettersInv' /\ ChainInv'
  BY ServerStep, AccessStep, CountsStep
<1> QED
  BY <1>1, <1>2, ServerInitial, AccessInitial, CountsInitial, PTL DEF Spec

-----------------------------------------------------------------------------
(* The editor of lines.                                                    *)
Typable == Letters \cup {Nul}

Prompts == {"name", "password", "command", "gone"}

(* A line as the loop means it: so many letters, then nothing.             *)
IsLine(e) ==
  /\ e \in [cmd : [Cells -> Typable], l : 0..LineBound, cursor : 0..LineBound]
  /\ e.cursor <= e.l
  /\ \A i \in Cells : e.cmd[i] = Nul <=> i >= e.l

(* A row of the terminal that shows it behind a prompt.                    *)
RowOf(prompt, e) ==
  [prompt |-> prompt,
   cells |-> [i \in Cells |-> IF i < e.l THEN e.cmd[i] ELSE Space],
   place |-> e.cursor]

(* What can be run, and called back.                                       *)
RunLines == {text \in Seq(Letters) : Len(text) \in 1..LineBound}

LineInv ==
  /\ asks \in Prompts
  /\ IsLine(buf)
  /\ Hidden => buf.cursor = buf.l

HistoryInv ==
  /\ history \in Seq(RunLines)
  /\ history # <<>> => history[Len(history)] = last
  /\ at \in Int

ScreenInv == Editing => term = RowOf(asks, IF Hidden THEN NoLine ELSE buf)

(* The keys that the loop is ready for, and a line that leaves two cells   *)
(* of the buffer free.                                                     *)
Ready ==
  /\ LineBound <= MaxLength - 2
  /\ {"edits a password", "leaves modes in a line"} \cap Habits = {}

LEMMA LineConstants ==
  /\ MaxLength \in Nat /\ MaxLength >= 3
  /\ LineBound \in Nat \ {0}
  /\ Space \in Letters /\ Nul \notin Letters
  /\ Nul # Space
  /\ Names \subseteq Seq(Letters \ {Space})
<1>1. MaxLength \in Nat /\ MaxLength >= 3 /\ LineBound \in 1..MaxLength
  BY LineAssumption DEF LineAssumption
<1>2. LineBound \in Nat \ {0}
  BY <1>1
<1>3. Space \in Letters /\ {Nul, Question} \cap Letters = {}
  BY LineAssumption DEF LineAssumption
<1>4. Nul \notin Letters
  BY <1>3
<1>5. Nul # Space
  BY <1>3, <1>4
<1>6. Names \subseteq Seq(Letters \ {Space})
  BY LineAssumption DEF LineAssumption
<1> QED
  BY <1>1, <1>2, <1>3, <1>4, <1>5, <1>6

LEMMA LeastIs ==
  ASSUME NEW S, NEW m \in S, m \in Int, \A y \in S : y \in Int /\ m <= y
  PROVE  Min(S) = m
<1>1. Min(S) \in S /\ \A y \in S : Min(S) <= y
  BY DEF Min
<1>2. Min(S) \in Int /\ m <= Min(S) /\ Min(S) <= m
  BY <1>1
<1> QED
  BY <1>2

(* A function on 1..n is a sequence.                                       *)
LEMMA TextIs ==
  ASSUME NEW cmd, NEW S, NEW i \in Nat, NEW j \in Nat, i <= j,
         \A k \in i..(j - 1) : cmd[k] \in S
  PROVE  /\ Text(cmd, i, j) \in Seq(S)
         /\ Len(Text(cmd, i, j)) = j - i
         /\ \A k \in 1..(j - i) : Text(cmd, i, j)[k] = cmd[i + k - 1]
<1> DEFINE n == j - i
           text == Text(cmd, i, j)
<1>1. n \in Nat
  OBVIOUS
<1>2. text = [k \in 1..n |-> cmd[i + k - 1]]
  BY DEF Text
<1>3. \A k \in 1..n : cmd[i + k - 1] \in S
  <2> TAKE k \in 1..n
  <2>1. i + k - 1 \in i..(j - 1)
    OBVIOUS
  <2> QED
    BY <2>1
<1> HIDE DEF n, text
<1>4. text \in [1..n -> S]
  BY <1>2, <1>3
<1>5. text \in Seq(S)
  BY <1>1, <1>4, SeqDef
<1>6. Len(text) = n
  BY <1>1, <1>4, <1>5, LenProperties
<1> QED
  BY <1>2, <1>5, <1>6 DEF n, text

LEMMA FrontIs ==
  ASSUME NEW cmd, NEW S, NEW j \in Nat, \A k \in 0..(j - 1) : cmd[k] \in S
  PROVE  /\ Text(cmd, 0, j) \in Seq(S)
         /\ Len(Text(cmd, 0, j)) = j
         /\ \A k \in 1..j : Text(cmd, 0, j)[k] = cmd[k - 1]
<1> DEFINE i == 0
<1>1. i \in Nat /\ i <= j /\ \A k \in i..(j - 1) : cmd[k] \in S
  OBVIOUS
<1> HIDE DEF i
<1>2. /\ Text(cmd, i, j) \in Seq(S)
      /\ Len(Text(cmd, i, j)) = j - i
      /\ \A k \in 1..(j - i) : Text(cmd, i, j)[k] = cmd[i + k - 1]
  BY <1>1, TextIs
<1>3. i = 0 /\ j - i = j /\ \A k \in 1..j : i + k - 1 = k - 1
  BY DEF i
<1> QED
  BY <1>2, <1>3

LEMMA SpacesAre ==
  ASSUME NEW n \in Nat
  PROVE  /\ Spaces(n) \in Seq({Space})
         /\ Len(Spaces(n)) = n
         /\ \A k \in 1..n : Spaces(n)[k] = Space
<1>1. Spaces(n) \in [1..n -> {Space}]
  BY DEF Spaces
<1>2. Spaces(n) \in Seq({Space})
  BY <1>1, SeqDef
<1>3. Len(Spaces(n)) = n
  BY <1>1, <1>2, LenProperties
<1> QED
  BY <1>2, <1>3 DEF Spaces

(* The string in a buffer ends where the letters of its line do.           *)
LEMMA EndIs ==
  ASSUME NEW e, IsLine(e), LineBound < MaxLength, NEW from \in 0..e.l
  PROVE  End(e.cmd, from) = e.l
<1> DEFINE S == {i \in Cells : i >= from /\ e.cmd[i] = Nul} \cup {MaxLength}
<1> USE LineConstants
<1>1. e.l \in Nat /\ e.l < MaxLength
  BY DEF IsLine
<1>2. e.l \in Cells /\ e.cmd[e.l] = Nul
  BY <1>1 DEF IsLine, Cells
<1>3. e.l \in S
  BY <1>2
<1>4. \A y \in S : y \in Int /\ e.l <= y
  BY <1>1 DEF IsLine, Cells
<1>5. Min(S) = e.l
  BY <1>1, <1>3, <1>4, LeastIs
<1> QED
  BY <1>5 DEF End

(* The lines that the keys make.                                           *)
LEMMA MovedIsLine ==
  ASSUME NEW e, IsLine(e), NEW to \in 0..e.l
  PROVE  /\ IsLine([e EXCEPT !.cursor = to])
         /\ [e EXCEPT !.cursor = to] = [cmd |-> e.cmd, l |-> e.l, cursor |-> to]
<1>1. [e EXCEPT !.cursor = to] = [cmd |-> e.cmd, l |-> e.l, cursor |-> to]
  BY DEF IsLine
<1>2. to \in 0..LineBound /\ to <= e.l
  BY LineConstants DEF IsLine
<1> QED
  BY <1>1, <1>2 DEF IsLine

LEMMA NoLineIsLine == IsLine(NoLine)
BY LineConstants DEF NoLine, IsLine, Cells, Typable

LEMMA StoredIsLine ==
  ASSUME LineBound < MaxLength, NEW text \in Seq(Letters), Len(text) <= LineBound
  PROVE  IsLine(Stored(text))
<1> DEFINE e == Stored(text)
<1> USE LineConstants
<1>1. Len(text) \in 0..LineBound
  BY LenProperties
<1>2. e.l = Len(text) /\ e.cursor = Len(text)
  BY DEF Stored
<1>3. \A i \in Cells : e.cmd[i] = IF i < Len(text) THEN text[i + 1] ELSE Nul
  BY DEF Stored
<1>4. \A i \in Cells : i < Len(text) => text[i + 1] \in Letters
  <2> TAKE i \in Cells
  <2> HAVE i < Len(text)
  <2>1. i + 1 \in 1..Len(text)
    BY <1>1 DEF Cells
  <2> QED
    BY <2>1, ElementOfSeq
<1>5. \A i \in Cells : i \in Int
  BY DEF Cells
<1>6. \A i \in Cells : e.cmd[i] \in Typable /\ (e.cmd[i] = Nul <=> i >= Len(text))
  BY <1>1, <1>3, <1>4, <1>5 DEF Typable
<1>7. e.cmd \in [Cells -> Typable]
  BY <1>3, <1>6 DEF Stored
<1>8. e = [cmd |-> e.cmd, l |-> Len(text), cursor |-> Len(text)]
  BY DEF Stored
<1>9. e.cursor <= e.l
  BY <1>1, <1>2
<1> HIDE DEF e
<1>10. e \in [cmd : [Cells -> Typable], l : 0..LineBound, cursor : 0..LineBound]
  BY <1>1, <1>7, <1>8
<1>11. IsLine(e)
  BY <1>2, <1>6, <1>9, <1>10 DEF IsLine
<1> QED
  BY <1>11 DEF e

LEMMA MinOfThree ==
  ASSUME NEW a \in Int, NEW b \in Int, NEW c \in Int
  PROVE  Min({a, b, c}) = IF a <= b /\ a <= c THEN a ELSE IF b <= c THEN b ELSE c
<1>1. CASE a <= b /\ a <= c
  BY <1>1, LeastIs
<1>2. CASE ~(a <= b /\ a <= c) /\ b <= c
  BY <1>2, LeastIs
<1>3. CASE ~(a <= b /\ a <= c) /\ ~(b <= c)
  BY <1>3, LeastIs
<1> QED
  BY <1>1, <1>2, <1>3

LEMMA CutIsLine ==
  ASSUME NEW e, IsLine(e), LineBound < MaxLength - 1, NEW n \in 1..e.cursor,
         Hidden => e.cursor = e.l
  PROVE  IsLine([cmd |-> Cut(e, n), l |-> e.l - n, cursor |-> e.cursor - n])
<1> USE LineConstants
<1>1. /\ e.l \in 0..LineBound /\ e.cursor \in 0..e.l /\ e.cmd \in [Cells -> Typable]
      /\ n \in Nat /\ n <= e.cursor
  BY DEF IsLine
<1>2. \A i \in Cells : i \in Int /\ 0 <= i /\ i <= MaxLength - 1
  BY DEF Cells
<1>3. \A i \in Cells : e.cmd[i] = Nul <=> i >= e.l
  BY DEF IsLine
<1>4. /\ Cut(e, n) \in [Cells -> Typable]
      /\ \A i \in Cells : Cut(e, n)[i] = Nul <=> i >= e.l - n
  <2>1. CASE e.l = e.cursor
    <3>1. Cut(e, n) = [i \in Cells |-> IF i \in (e.cursor - n)..(e.cursor - 1) THEN Nul ELSE e.cmd[i]]
      BY <2>1 DEF Cut
    <3> QED
      BY <1>1, <1>2, <1>3, <2>1, <3>1 DEF Typable
  <2>2. CASE e.l # e.cursor
    <3>1. Cut(e, n) = [i \in Cells |-> IF i < e.cursor - n \/ i > e.l THEN e.cmd[i]
                                       ELSE e.cmd[Min({i + n, e.l + 1, MaxLength - 1})]]
      BY <2>2 DEF Cut, Shifted
    <3>2. ASSUME NEW i \in Cells
          PROVE  Cut(e, n)[i] \in Typable /\ (Cut(e, n)[i] = Nul <=> i >= e.l - n)
      <4>1. CASE i < e.cursor - n \/ i > e.l
        <5>1. Cut(e, n)[i] = e.cmd[i]
          BY <3>1, <4>1
        <5> QED
          BY <1>1, <1>2, <1>3, <4>1, <5>1
      <4>2. CASE ~(i < e.cursor - n \/ i > e.l)
        <5> DEFINE m == Min({i + n, e.l + 1, MaxLength - 1})
        <5>1. m = IF i + n <= e.l + 1 THEN i + n ELSE e.l + 1
          BY <1>1, <1>2, <4>2, MinOfThree
        <5>2. Cut(e, n)[i] = e.cmd[m]
          BY <3>1, <4>2
        <5> HIDE DEF m
        <5>3. m \in Cells /\ (m >= e.l <=> i >= e.l - n)
          BY <1>1, <1>2, <4>2, <5>1 DEF Cells
        <5> QED
          BY <1>1, <1>3, <5>2, <5>3
      <4> QED
        BY <4>1, <4>2
    <3> QED
      BY <3>1, <3>2
  <2> QED
    BY <2>1, <2>2
<1>5. e.l - n \in 0..LineBound /\ e.cursor - n \in 0..LineBound /\ e.cursor - n <= e.l - n
  BY <1>1
<1> QED
  BY <1>4, <1>5 DEF IsLine

LEMMA AppendedIsLine ==
  ASSUME NEW e, IsLine(e), NEW c \in Letters, e.cursor = e.l, e.l < LineBound,
         LineBound < MaxLength
  PROVE  IsLine([cmd |-> [e.cmd EXCEPT ![e.cursor] = c], l |-> e.l + 1, cursor |-> e.cursor + 1])
<1> DEFINE cmd == [e.cmd EXCEPT ![e.cursor] = c]
<1> USE LineConstants
<1>1. e.l \in 0..LineBound /\ e.cursor = e.l /\ e.cmd \in [Cells -> Typable] /\ c \in Typable
  BY DEF IsLine, Typable
<1>2. cmd \in [Cells -> Typable] /\ \A i \in Cells : cmd[i] = IF i = e.cursor THEN c ELSE e.cmd[i]
  BY <1>1
<1>3. \A i \in Cells : i \in Int /\ (e.cmd[i] = Nul <=> i >= e.l)
  BY DEF IsLine, Cells
<1> HIDE DEF cmd
<1>4. \A i \in Cells : cmd[i] = Nul <=> i >= e.l + 1
  BY <1>1, <1>2, <1>3
<1>5. IsLine([cmd |-> cmd, l |-> e.l + 1, cursor |-> e.cursor + 1])
  BY <1>1, <1>2, <1>4 DEF IsLine
<1> QED
  BY <1>5 DEF cmd

LEMMA InsertedIsLine ==
  ASSUME NEW e, IsLine(e), NEW c \in Letters, e.cursor < e.l, e.l < LineBound,
         LineBound < MaxLength
  PROVE  IsLine([cmd |-> [i \in Cells |-> IF i = e.cursor THEN c
                                          ELSE IF i \in (e.cursor + 1)..(e.l + 1) THEN e.cmd[i - 1]
                                          ELSE e.cmd[i]],
                 l |-> e.l + 1, cursor |-> e.cursor + 1])
<1> DEFINE cmd == [i \in Cells |-> IF i = e.cursor THEN c
                                   ELSE IF i \in (e.cursor + 1)..(e.l + 1) THEN e.cmd[i - 1]
                                   ELSE e.cmd[i]]
<1> USE LineConstants
<1>1. /\ e.l \in 0..LineBound /\ e.cursor \in 0..e.l /\ e.cmd \in [Cells -> Typable]
      /\ c \in Typable
  BY DEF IsLine, Typable
<1>2. \A i \in Cells : i \in Int /\ (e.cmd[i] = Nul <=> i >= e.l)
  BY DEF IsLine, Cells
<1>3. ASSUME NEW i \in Cells
      PROVE  cmd[i] \in Typable /\ (cmd[i] = Nul <=> i >= e.l + 1)
  <2>1. CASE i = e.cursor
    BY <1>1, <1>2, <2>1
  <2>2. CASE i \in (e.cursor + 1)..(e.l + 1)
    <3>1. cmd[i] = e.cmd[i - 1]
      BY <1>1, <1>2, <2>2
    <3>2. i - 1 \in Cells
      BY <1>1, <2>2 DEF Cells
    <3>3. i - 1 >= e.l <=> i >= e.l + 1
      BY <1>1, <1>2
    <3> HIDE DEF cmd
    <3> QED
      BY <1>1, <1>2, <3>1, <3>2, <3>3
  <2>3. CASE i # e.cursor /\ i \notin (e.cursor + 1)..(e.l + 1)
    <3>1. cmd[i] = e.cmd[i]
      BY <2>3
    <3> QED
      BY <1>1, <1>2, <2>3, <3>1
  <2> QED
    BY <2>1, <2>2, <2>3
<1>4. cmd \in [Cells -> Typable]
  BY <1>3
<1> HIDE DEF cmd
<1>5. IsLine([cmd |-> cmd, l |-> e.l + 1, cursor |-> e.cursor + 1])
  BY <1>1, <1>3, <1>4 DEF IsLine
<1> QED
  BY <1>5 DEF cmd

LEMMA KilledIsLine ==
  ASSUME NEW e, IsLine(e), LineBound < MaxLength
  PROVE  IsLine([cmd |-> [i \in Cells |-> IF i \in e.cursor..(e.l - 1) THEN Nul ELSE e.cmd[i]],
                 l |-> e.cursor, cursor |-> e.cursor])
<1> USE LineConstants
<1>1. e.l \in 0..LineBound /\ e.cursor \in 0..e.l /\ e.cmd \in [Cells -> Typable]
  BY DEF IsLine
<1>2. \A i \in Cells : i \in Int /\ (e.cmd[i] = Nul <=> i >= e.l)
  BY DEF IsLine, Cells
<1> QED
  BY <1>1, <1>2 DEF IsLine, Typable

(* Where the last word of a line begins.                                   *)
LEMMA StartIsInLine ==
  ASSUME NEW l \in Nat, NEW S, S \subseteq 1..l
  PROVE  Max({0} \cup S) \in 0..l
<1>1. {0} \cup S \subseteq 0..l
  OBVIOUS
<1> QED
  BY <1>1, GreatestOf

LEMMA CompletedText ==
  ASSUME NEW e, IsLine(e), LineBound < MaxLength,
         NEW start \in 0..e.l, NEW name \in Seq(Letters)
  PROVE  LET text == Text(e.cmd, 0, start) \o name \o <<Space>>
         IN  /\ text \in Seq(Letters)
             /\ Len(text) = start + Len(name) + 1
             /\ \A k \in 1..(start + Len(name) + 1) :
                  text[k] = IF k <= start THEN e.cmd[k - 1]
                            ELSE IF k <= start + Len(name) THEN name[k - start]
                            ELSE Space
<1> DEFINE before == Text(e.cmd, 0, start)
           two == before \o name
           space == <<Space>>
           text == two \o space
<1> USE LineConstants
<1>1. start \in Nat /\ e.l \in 0..LineBound /\ start <= e.l
  BY DEF IsLine
<1>2. \A k \in 0..(start - 1) : e.cmd[k] \in Letters
  <2> TAKE k \in 0..(start - 1)
  <2>1. k \in Cells /\ ~(k >= e.l)
    BY <1>1 DEF Cells
  <2> QED
    BY <2>1 DEF IsLine, Typable
<1>3. /\ before \in Seq(Letters)
      /\ Len(before) = start
      /\ \A k \in 1..start : before[k] = e.cmd[k - 1]
  BY <1>1, <1>2, FrontIs
<1>4. Len(name) \in Nat
  BY LenProperties
<1> HIDE DEF before
<1>5. /\ two \in Seq(Letters)
      /\ Len(two) = start + Len(name)
      /\ \A k \in 1..(start + Len(name)) :
           two[k] = IF k <= start THEN before[k] ELSE name[k - start]
  BY <1>3, ConcatProperties
<1> HIDE DEF two
<1>6. space \in Seq(Letters) /\ Len(space) = 1 /\ space[1] = Space
  OBVIOUS
<1> HIDE DEF space
<1>7. /\ text \in Seq(Letters)
      /\ Len(text) = Len(two) + Len(space)
      /\ \A k \in 1..(Len(two) + Len(space)) :
           text[k] = IF k <= Len(two) THEN two[k] ELSE space[k - Len(two)]
  BY <1>5, <1>6, ConcatProperties
<1> HIDE DEF text
<1>8. ASSUME NEW k \in 1..(start + Len(name) + 1)
      PROVE  text[k] = IF k <= start THEN e.cmd[k - 1]
                       ELSE IF k <= start + Len(name) THEN name[k - start]
                       ELSE Space
  <2>1. CASE k <= start
    BY <1>1, <1>3, <1>4, <1>5, <1>6, <1>7, <2>1
  <2>2. CASE k > start /\ k <= start + Len(name)
    BY <1>1, <1>4, <1>5, <1>6, <1>7, <2>2
  <2>3. CASE k = start + Len(name) + 1
    <3>1. k - Len(two) = 1 /\ ~(k <= start) /\ ~(k <= start + Len(name))
      BY <1>1, <1>4, <1>5, <2>3
    <3>2. text[k] = space[k - Len(two)]
      BY <1>1, <1>4, <1>5, <1>6, <1>7, <2>3
    <3> QED
      BY <1>6, <3>1, <3>2
  <2>4. \/ k <= start
        \/ k > start /\ k <= start + Len(name)
        \/ k = start + Len(name) + 1
    BY <1>1, <1>4
  <2> QED
    BY <2>1, <2>2, <2>3, <2>4
<1>9. Len(text) = start + Len(name) + 1
  BY <1>1, <1>4, <1>5, <1>6, <1>7
<1> QED
  BY <1>7, <1>8, <1>9 DEF text, two, before, space

-----------------------------------------------------------------------------
LEMMA RoomIsLeft ==
  ASSUME Ready
  PROVE  LineBound < MaxLength /\ LineBound < MaxLength - 1 /\ LineBound <= MaxLength - 2
<1>1. LineBound <= MaxLength - 2
  BY DEF Ready
<1> QED
  BY <1>1, LineConstants

LEMMA EraseKeeps ==
  ASSUME Ready, LineInv, NEW n \in 0..buf.cursor, Erase(n)
  PROVE  /\ n \in 1..buf.cursor
         /\ buf' = [cmd |-> Cut(buf, n), l |-> buf.l - n, cursor |-> buf.cursor - n]
         /\ IsLine(buf') /\ asks' = asks /\ (Hidden => buf'.cursor = buf'.l)
<1>1. n \in 1..buf.cursor
  <2>1. buf.cursor \in Nat
    BY LineConstants DEF LineInv, IsLine
  <2> QED
    BY <2>1 DEF Erase
<1>2. buf' = [cmd |-> Cut(buf, n), l |-> buf.l - n, cursor |-> buf.cursor - n] /\ asks' = asks
  BY DEF Erase
<1>3. LineBound < MaxLength - 1
  BY RoomIsLeft
<1>4. IsLine(buf')
  BY <1>1, <1>2, <1>3, CutIsLine DEF LineInv
<1>5. Hidden => buf'.cursor = buf'.l
  BY <1>2 DEF LineInv
<1> QED
  BY <1>1, <1>2, <1>4, <1>5

(* What the two keys that erase take.                                      *)
LEMMA ErasedAreTyped ==
  ASSUME LineInv
  PROVE  /\ Min({1, buf.cursor}) \in 0..buf.cursor
         /\ buf.cursor - WordStart \in 0..buf.cursor
<1>1. buf.cursor \in Nat
  BY LineConstants DEF LineInv, IsLine
<1>2. Min({1, buf.cursor}) \in 0..buf.cursor
  <2>1. CASE 1 <= buf.cursor
    BY <1>1, <2>1, LeastIs
  <2>2. CASE ~(1 <= buf.cursor)
    BY <1>1, <2>2, LeastIs
  <2> QED
    BY <2>1, <2>2
<1>3. WordStart \in 0..buf.cursor
  <2> DEFINE end == Max({0} \cup {i \in 1..buf.cursor : buf.cmd[i - 1] # Space})
  <2>1. end \in 0..buf.cursor
    BY <1>1, StartIsInLine
  <2>2. WordStart = Max({0} \cup {i \in 1..end : buf.cmd[i - 1] = Space})
    BY DEF WordStart
  <2> HIDE DEF end
  <2>3. end \in Nat
    BY <1>1, <2>1
  <2>4. WordStart \in 0..end
    BY <2>2, <2>3, StartIsInLine
  <2> QED
    BY <1>1, <2>1, <2>4
<1> QED
  BY <1>1, <1>2, <1>3

LEMMA RecallKeeps ==
  ASSUME Ready, HistoryInv, NEW k \in Int, Recall(k)
  PROVE  /\ asks = "command" /\ asks' = asks
         /\ history[k + 1] \in Seq(Letters) /\ Len(history[k + 1]) \in 1..LineBound
         /\ buf' = Stored(history[k + 1]) /\ IsLine(buf')
<1>1. LineBound < MaxLength
  BY RoomIsLeft
<1>2. history[k + 1] \in RunLines
  BY DEF Recall, HistoryInv
<1>3. history[k + 1] \in Seq(Letters) /\ Len(history[k + 1]) \in 1..LineBound
  BY <1>2 DEF RunLines
<1>4. Len(history[k + 1]) <= LineBound
  BY <1>3, LineConstants
<1> QED
  BY <1>1, <1>3, <1>4, StoredIsLine DEF Recall

LEMMA CompleteKeeps ==
  ASSUME Ready, LineInv, NEW name \in Names, Complete(name)
  PROVE  IsLine(buf') /\ asks = "command" /\ asks' = asks
<1> DEFINE start == Max({0} \cup {i \in 1..buf.l : buf.cmd[i - 1] = Space})
           text == Text(buf.cmd, 0, start) \o name \o <<Space>>
<1>1. LineBound < MaxLength
  BY RoomIsLeft
<1>2. buf.l \in Nat /\ IsLine(buf)
  BY LineConstants DEF LineInv, IsLine
<1>3. start \in 0..buf.l
  BY <1>2, StartIsInLine
<1>4. name \in Seq(Letters)
  BY LineConstants, SeqMonotonic
<1>5. /\ start + Len(name) + 1 <= LineBound
      /\ buf' = Stored(text)
      /\ asks = "command" /\ asks' = asks
  BY DEF Complete
<1> HIDE DEF start
<1>6. text \in Seq(Letters) /\ Len(text) = start + Len(name) + 1
  BY <1>1, <1>2, <1>3, <1>4, CompletedText
<1> HIDE DEF text
<1> QED
  BY <1>1, <1>5, <1>6, StoredIsLine

LEMMA AppendKeeps ==
  ASSUME Ready, LineInv, NEW c \in Letters, AppendLetter(c)
  PROVE  /\ buf' = [cmd |-> [buf.cmd EXCEPT ![buf.cursor] = c],
                    l |-> buf.l + 1, cursor |-> buf.cursor + 1]
         /\ term' = Echo(Write(term, <<c>>))
         /\ asks' = asks /\ buf.cursor = buf.l /\ buf.l < LineBound /\ Editing
         /\ IsLine(buf') /\ buf'.cursor = buf'.l
<1>1. LineBound < MaxLength /\ LineBound <= MaxLength - 2
  BY RoomIsLeft
<1>2. IsLine(buf) /\ buf.l \in Int
  BY DEF LineInv, IsLine
<1>3. buf.cursor = buf.l /\ buf.l < LineBound /\ asks' = asks /\ Editing
  BY DEF AppendLetter
<1>4. buf.l < MaxLength - 1
  BY <1>1, <1>2, <1>3, LineConstants
<1>5. /\ buf' = [cmd |-> [buf.cmd EXCEPT ![buf.cursor] = c],
                 l |-> buf.l + 1, cursor |-> buf.cursor + 1]
      /\ term' = Echo(Write(term, <<c>>))
  BY <1>4 DEF AppendLetter
<1>6. IsLine(buf')
  BY <1>1, <1>2, <1>3, <1>5, AppendedIsLine
<1> QED
  BY <1>3, <1>5, <1>6

LEMMA InsertKeeps ==
  ASSUME Ready, LineInv, NEW c \in Letters, Insert(c)
  PROVE  /\ buf' = [cmd |-> [i \in Cells |-> IF i = buf.cursor THEN c
                                             ELSE IF i \in (buf.cursor + 1)..(buf.l + 1)
                                             THEN buf.cmd[i - 1] ELSE buf.cmd[i]],
                    l |-> buf.l + 1, cursor |-> buf.cursor + 1]
         /\ ~Hidden
         /\ term' = Write(Back(Write(term, Text(buf'.cmd, buf.cursor, buf.l + 1)),
                               buf.l - buf.cursor + 1), <<c>>)
         /\ asks' = asks /\ buf.cursor < buf.l /\ buf.l < LineBound /\ Editing
         /\ IsLine(buf')
<1>1. LineBound < MaxLength /\ LineBound <= MaxLength - 2
  BY RoomIsLeft
<1>2. IsLine(buf) /\ buf.l \in Int /\ buf.cursor \in Int
  BY DEF LineInv, IsLine
<1>3. buf.cursor < buf.l /\ buf.l < LineBound /\ asks' = asks /\ Editing
  BY DEF Insert
<1>4. ~(buf.l >= MaxLength - 2) /\ ~Hidden
  BY <1>1, <1>2, <1>3, LineConstants DEF LineInv
<1>5. buf' = [cmd |-> [i \in Cells |-> IF i = buf.cursor THEN c
                                       ELSE IF i \in (buf.cursor + 1)..(buf.l + 1)
                                       THEN buf.cmd[i - 1] ELSE buf.cmd[i]],
              l |-> buf.l + 1, cursor |-> buf.cursor + 1]
  BY <1>4 DEF Insert
<1>6. IsLine(buf')
  BY <1>1, <1>2, <1>3, <1>5, InsertedIsLine
<1>7. term' = Write(Back(Write(term, Text(buf'.cmd, buf.cursor, buf.l + 1)),
                         buf.l - buf.cursor + 1), <<c>>)
  BY <1>4, <1>5 DEF Insert
<1> QED
  BY <1>3, <1>4, <1>5, <1>6, <1>7

(* The string that is run is the line that was typed.                      *)
LEMMA StringIs ==
  ASSUME NEW e, IsLine(e), LineBound < MaxLength
  PROVE  /\ StrLen(e.cmd) = e.l
         /\ CString(e.cmd) \in Seq(Letters)
         /\ Len(CString(e.cmd)) = e.l
         /\ \A k \in 1..e.l : CString(e.cmd)[k] = e.cmd[k - 1]
<1>1. e.l \in Nat /\ e.l <= LineBound
  BY LineConstants DEF IsLine
<1>2. StrLen(e.cmd) = e.l
  BY <1>1, EndIs DEF StrLen
<1>3. \A k \in 0..(e.l - 1) : e.cmd[k] \in Letters
  <2> TAKE k \in 0..(e.l - 1)
  <2>1. k \in Cells /\ ~(k >= e.l)
    BY <1>1, LineConstants DEF Cells
  <2> QED
    BY <2>1 DEF IsLine, Typable
<1>4. CString(e.cmd) = Text(e.cmd, 0, e.l)
  BY <1>2 DEF CString
<1>5. /\ Text(e.cmd, 0, e.l) \in Seq(Letters)
      /\ Len(Text(e.cmd, 0, e.l)) = e.l
      /\ \A k \in 1..e.l : Text(e.cmd, 0, e.l)[k] = e.cmd[k - 1]
  BY <1>1, <1>3, FrontIs
<1> QED
  BY <1>2, <1>4, <1>5

LEMMA StoredIsRun ==
  ASSUME LineBound < MaxLength, NEW text \in Seq(Letters), Len(text) <= LineBound
  PROVE  CString(Stored(text).cmd) = text
<1> DEFINE e == Stored(text)
<1>1. IsLine(e)
  BY StoredIsLine
<1>2. e.l = Len(text) /\ \A i \in Cells : i < Len(text) => e.cmd[i] = text[i + 1]
  BY DEF Stored
<1> HIDE DEF e
<1>3. /\ CString(e.cmd) \in Seq(Letters)
      /\ Len(CString(e.cmd)) = Len(text)
      /\ \A k \in 1..Len(text) : CString(e.cmd)[k] = e.cmd[k - 1]
  BY <1>1, <1>2, StringIs
<1>4. ASSUME NEW k \in 1..Len(text)
      PROVE  CString(e.cmd)[k] = text[k]
  <2>1. Len(text) \in Nat /\ Len(text) < MaxLength
    BY LineConstants, LenProperties
  <2>2. k - 1 \in Cells /\ k - 1 < Len(text) /\ (k - 1) + 1 = k
    BY <2>1, LineConstants DEF Cells
  <2> QED
    BY <1>2, <1>3, <2>2
<1>5. CString(e.cmd) = text
  BY <1>3, <1>4, SeqEqual
<1> QED
  BY <1>5 DEF e

LEMMA AddHistoryKeeps ==
  ASSUME HistoryInv, NEW text \in RunLines
  PROVE  /\ AddHistory(text) \in Seq(RunLines)
         /\ AddHistory(text) # <<>>
         /\ AddHistory(text)[Len(AddHistory(text))] = text
<1>1. history \in Seq(RunLines) /\ Len(history) \in Nat
  BY LenProperties DEF HistoryInv
<1>2. CASE Len(history) = MaxHistory
  <2>1. history # <<>>
    <3>1. MaxHistory # 0
      BY LineAssumption DEF LineAssumption
    <3> QED
      BY <1>2, <3>1
  <2>2. Tail(history) \in Seq(RunLines)
    BY <1>1, <2>1
  <2>3. AddHistory(text) = Append(Tail(history), text)
    BY <1>2 DEF AddHistory
  <2> QED
    BY <2>2, <2>3
<1>3. CASE Len(history) # MaxHistory /\ history # <<>> /\ Last(history) = text
  <2>1. AddHistory(text) = history
    BY <1>3 DEF AddHistory
  <2> QED
    BY <1>1, <1>3, <2>1 DEF Last
<1>4. CASE Len(history) # MaxHistory /\ ~(history # <<>> /\ Last(history) = text)
  <2>1. AddHistory(text) = Append(history, text)
    BY <1>4 DEF AddHistory
  <2> QED
    BY <1>1, <2>1
<1> QED
  BY <1>2, <1>3, <1>4

LEMMA EnterKeeps ==
  ASSUME Ready, LineInv, HistoryInv, NEW next \in Prompts, Enter(next)
  PROVE  /\ asks' = next /\ buf' = NoLine /\ term' = Prompted(next, NoLine) /\ at' = 0
         /\ HistoryInv'
<1>1. asks' = next /\ buf' = NoLine /\ term' = Prompted(next, NoLine) /\ at' = 0
  BY DEF Enter, NextLine
<1>2. CASE asks = "command" /\ buf.l > 0
  <2> DEFINE text == CString(buf.cmd)
  <2>1. history' = AddHistory(text) /\ last' = text
    BY <1>2 DEF Enter
  <2>2. buf.l \in 1..LineBound
    BY <1>2 DEF LineInv, IsLine
  <2>3. text \in RunLines
    BY <2>2, RoomIsLeft, StringIs DEF LineInv, RunLines
  <2> HIDE DEF text
  <2>4. /\ AddHistory(text) \in Seq(RunLines)
        /\ AddHistory(text) # <<>>
        /\ AddHistory(text)[Len(AddHistory(text))] = text
    BY <2>3, AddHistoryKeeps
  <2>5. history' \in Seq(RunLines) /\ history'[Len(history')] = last' /\ at' \in Int
    BY <1>1, <2>1, <2>4
  <2> QED
    BY <1>1, <2>5 DEF HistoryInv
<1>3. CASE ~(asks = "command" /\ buf.l > 0)
  <2>1. UNCHANGED <<history, last>>
    BY <1>3 DEF Enter
  <2> QED
    BY <1>1, <2>1 DEF HistoryInv
<1> QED
  BY <1>1, <1>2, <1>3

LEMMA HelpKeeps ==
  ASSUME NEW next \in Prompts, Help(next)
  PROVE  /\ asks' = next /\ buf' = buf /\ term' = Prompted(next, buf) /\ at' = 0
         /\ buf.cursor = buf.l
         /\ UNCHANGED <<history, last>>
BY DEF Help, NextLine

LEMMA EndOfInputKeeps ==
  ASSUME Ready, LineInv, HistoryInv, EndOfInput
  PROVE  \E next \in Prompts :
           /\ asks' = next /\ buf' = NoLine /\ term' = Prompted(next, NoLine) /\ at' = 0
           /\ HistoryInv'
<1>1. CASE asks \in {"name", "command"} /\ buf.l = 0 /\ NextLine("gone", NoLine)
              /\ UNCHANGED <<history, last>>
  <2>1. asks' = "gone" /\ buf' = NoLine /\ term' = Prompted("gone", NoLine) /\ at' = 0
    BY <1>1 DEF NextLine
  <2>2. HistoryInv'
    BY <1>1, <2>1 DEF HistoryInv
  <2> QED
    BY <2>1, <2>2 DEF Prompts
<1>2. CASE \E next \in {"name", "command"} : Enter(next)
  BY <1>2, EnterKeeps DEF Prompts
<1> QED
  BY <1>1, <1>2 DEF EndOfInput

LEMMA HistoryStep ==
  Ready /\ LineInv /\ HistoryInv /\ [LineNext]_lineVars => HistoryInv'
<1> SUFFICES ASSUME Ready, LineInv, HistoryInv, [LineNext]_lineVars PROVE HistoryInv'
  OBVIOUS
<1>1. ASSUME UNCHANGED <<history, last>>, at' \in Int PROVE HistoryInv'
  BY <1>1 DEF HistoryInv
<1>2. ASSUME UNCHANGED <<history, at, last>> PROVE HistoryInv'
  BY <1>2 DEF HistoryInv
<1>3. ASSUME NEW k \in Int, Recall(k) PROVE HistoryInv'
  BY <1>1, <1>3 DEF Recall
<1>4. at \in Int /\ Len(history) \in Nat
  BY LenProperties DEF HistoryInv
<1>5. CASE Up
  BY <1>3, <1>4, <1>5 DEF Up
<1>6. CASE Down
  BY <1>3, <1>4, <1>6 DEF Down
<1>7. CASE EndOfInput
  BY <1>7, EndOfInputKeeps
<1>8. CASE \E next \in Prompts : Enter(next) \/ Help(next)
  <2> PICK next \in Prompts : Enter(next) \/ Help(next)
    BY <1>8
  <2>1. CASE Enter(next)
    BY <2>1, EnterKeeps
  <2>2. CASE Help(next)
    BY <1>1, <2>2, HelpKeeps
  <2> QED
    BY <2>1, <2>2
<1>9. CASE \E c \in Letters : AppendLetter(c) \/ Insert(c)
  BY <1>2, <1>9 DEF AppendLetter, Insert
<1>10. CASE \E name \in Names : Complete(name)
  BY <1>2, <1>10 DEF Complete
<1>11. CASE EraseChar \/ EraseWord \/ ClearLine \/ KillToEnd \/ Redraw \/ LeaveAllModes \/ ListNames
  BY <1>2, <1>11 DEF EraseChar, EraseWord, Erase, ClearLine, KillToEnd, Redraw, LeaveAllModes, ListNames
<1>12. CASE Left \/ Right \/ ToStart \/ ToEnd
  BY <1>2, <1>12 DEF Left, Right, ToStart, ToEnd, Moves
<1>13. CASE UNCHANGED lineVars
  BY <1>2, <1>13 DEF lineVars
<1> QED
  BY <1>5, <1>6, <1>7, <1>8, <1>9, <1>10, <1>11, <1>12, <1>13 DEF LineNext, Prompts

LEMMA LineStep ==
  Ready /\ LineInv /\ HistoryInv /\ [LineNext]_lineVars => LineInv'
<1> SUFFICES ASSUME Ready, LineInv, HistoryInv, [LineNext]_lineVars PROVE LineInv'
  OBVIOUS
<1>1. ASSUME asks' \in Prompts, IsLine(buf'), (asks' = "password") => buf'.cursor = buf'.l
      PROVE  LineInv'
  BY <1>1 DEF LineInv, Hidden
<1>2. asks \in Prompts /\ IsLine(buf) /\ (asks = "password" => buf.cursor = buf.l)
  BY DEF LineInv, Hidden
<1>3. IsLine(NoLine) /\ NoLine.cursor = NoLine.l
  BY NoLineIsLine DEF NoLine
<1>4. ASSUME NEW k \in Int, Recall(k) PROVE LineInv'
  BY <1>1, <1>2, <1>4, RecallKeeps
<1>5. at \in Int /\ Len(history) \in Nat
  BY LenProperties DEF HistoryInv
<1>6. CASE Up
  BY <1>4, <1>5, <1>6 DEF Up
<1>7. CASE Down
  BY <1>4, <1>5, <1>7 DEF Down
<1>8. CASE EndOfInput
  BY <1>1, <1>3, <1>8, EndOfInputKeeps
<1>9. CASE \E next \in Prompts : Enter(next) \/ Help(next)
  <2> PICK next \in Prompts : Enter(next) \/ Help(next)
    BY <1>9
  <2>1. CASE Enter(next)
    BY <1>1, <1>3, <2>1, EnterKeeps
  <2>2. CASE Help(next)
    BY <1>1, <1>2, <2>2, HelpKeeps
  <2> QED
    BY <2>1, <2>2
<1>10. CASE \E c \in Letters : AppendLetter(c) \/ Insert(c)
  <2> PICK c \in Letters : AppendLetter(c) \/ Insert(c)
    BY <1>10
  <2>1. CASE AppendLetter(c)
    BY <1>1, <1>2, <2>1, AppendKeeps
  <2>2. CASE Insert(c)
    BY <1>1, <1>2, <2>2, InsertKeeps DEF Hidden
  <2> QED
    BY <2>1, <2>2
<1>11. CASE \E name \in Names : Complete(name)
  BY <1>1, <1>2, <1>11, CompleteKeeps
<1>12. CASE EraseChar \/ EraseWord
  BY <1>1, <1>2, <1>12, ErasedAreTyped, EraseKeeps DEF EraseChar, EraseWord, Hidden
<1>13. CASE ClearLine
  BY <1>1, <1>2, <1>3, <1>13 DEF ClearLine
<1>14. CASE KillToEnd
  <2>1. asks' = asks /\ buf' = [buf EXCEPT !.l = buf.cursor,
                                   !.cmd = [i \in Cells |-> IF i \in buf.cursor..(buf.l - 1)
                                                            THEN Nul ELSE @[i]]]
    BY <1>14 DEF KillToEnd
  <2>2. buf' = [cmd |-> [i \in Cells |-> IF i \in buf.cursor..(buf.l - 1) THEN Nul ELSE buf.cmd[i]],
                l |-> buf.cursor, cursor |-> buf.cursor]
    BY <1>2, <2>1 DEF IsLine
  <2>3. IsLine(buf')
    BY <1>2, <2>2, RoomIsLeft, KilledIsLine
  <2> QED
    BY <1>1, <1>2, <2>1, <2>2, <2>3
<1>15. CASE Redraw \/ ListNames
  BY <1>1, <1>2, <1>15 DEF Redraw, ListNames
<1>16. CASE LeaveAllModes
  <2>1. asks' = asks /\ asks = "command" /\ buf' = [buf EXCEPT !.cmd = NoLine.cmd] /\ ~(buf.l > 0)
    BY <1>16 DEF LeaveAllModes, Ready
  <2>2. buf' = NoLine
    BY <1>2, <2>1, LineConstants DEF IsLine, NoLine
  <2> QED
    BY <1>1, <1>2, <1>3, <2>1, <2>2
<1>17. ASSUME NEW to \in 0..buf.l, NEW t, Moves(to, t) PROVE LineInv'
  <2>1. asks' = asks /\ buf' = [buf EXCEPT !.cursor = to] /\ ~Hidden
    BY <1>17 DEF Moves, Ready
  <2> QED
    BY <1>1, <1>2, <2>1, MovedIsLine DEF Hidden
<1>18. CASE Left \/ Right \/ ToStart \/ ToEnd
  <2>1. buf.cursor \in Nat /\ buf.l \in Nat /\ buf.cursor <= buf.l
    BY <1>2, LineConstants DEF IsLine
  <2>2. /\ buf.cursor > 0 => buf.cursor - 1 \in 0..buf.l
        /\ buf.cursor < buf.l => buf.cursor + 1 \in 0..buf.l
        /\ 0 \in 0..buf.l /\ buf.l \in 0..buf.l
    BY <2>1
  <2> QED
    BY <1>17, <1>18, <2>2 DEF Left, Right, ToStart, ToEnd
<1>19. CASE UNCHANGED lineVars
  BY <1>1, <1>2, <1>19 DEF lineVars
<1> QED
  BY <1>6, <1>7, <1>8, <1>9, <1>10, <1>11, <1>12, <1>13, <1>14, <1>15, <1>16, <1>18, <1>19
     DEF LineNext, Prompts

LEMMA LineInitial == LineInit => LineInv /\ HistoryInv
<1> SUFFICES ASSUME LineInit PROVE LineInv /\ HistoryInv
  OBVIOUS
<1>1. asks = "name" /\ buf = NoLine /\ history = <<>> /\ at = 0
  BY DEF LineInit
<1>2. IsLine(buf)
  BY <1>1, NoLineIsLine
<1> QED
  BY <1>1, <1>2 DEF LineInv, HistoryInv, Prompts, Hidden

LEMMA LineHolds == Ready /\ LineSpec => [](LineInv /\ HistoryInv)
<1> SUFFICES ASSUME Ready PROVE LineSpec => [](LineInv /\ HistoryInv)
  OBVIOUS
<1>1. LineInv /\ HistoryInv /\ [LineNext]_lineVars => LineInv' /\ HistoryInv'
  BY LineStep, HistoryStep
<1> QED
  BY <1>1, LineInitial, PTL DEF LineSpec

(* Whatever is typed, moved, erased, completed and called back, the string *)
(* in the buffer is as long as the loop counts, and the cursor is in it:   *)
(* if two cells of the buffer stay free, nobody moves in a password and    *)
(* nobody leaves the modes of the tree in the middle of a line.            *)
THEOREM LineStaysWhole == ASSUME Ready PROVE LineSpec => []LineIsWhole
<1>1. ASSUME LineInv PROVE LineIsWhole
  <2>1. IsLine(buf)
    BY <1>1 DEF LineInv
  <2>2. StrLen(buf.cmd) = buf.l
    BY <2>1, RoomIsLeft, StringIs
  <2>3. buf.l \in 0..LineBound /\ buf.cursor \in 0..LineBound /\ buf.cursor <= buf.l
    BY <2>1 DEF IsLine
  <2>4. buf.l \in 0..(MaxLength - 1) /\ buf.cursor \in 0..buf.l
    BY <2>3, RoomIsLeft, LineConstants
  <2> QED
    BY <2>2, <2>4 DEF LineIsWhole
<1> QED
  BY <1>1, LineHolds, PTL

(* Up on a line that has just begun puts into the buffer the string that   *)
(* was run last, of however many lines before it.                          *)
THEOREM UpIsTheLast == ASSUME Ready PROVE LineSpec => UpBringsTheLast
<1>1. ASSUME LineInv, HistoryInv, at = 0, Up PROVE CString(buf'.cmd) = last
  <2> DEFINE k == Len(history) - 1
  <2>1. history \in Seq(RunLines) /\ Len(history) \in Nat
    BY <1>1, LenProperties DEF HistoryInv
  <2>2. k \in Int /\ k + 1 = Len(history)
    BY <2>1
  <2>3. Recall(k)
    BY <1>1 DEF Up
  <2> HIDE DEF k
  <2>4. /\ history[k + 1] \in Seq(Letters) /\ Len(history[k + 1]) \in 1..LineBound
        /\ buf' = Stored(history[k + 1])
    BY <1>1, <2>2, <2>3, RecallKeeps
  <2>5. Len(history[k + 1]) <= LineBound
    BY <2>4, LineConstants
  <2>6. CString(buf'.cmd) = history[k + 1]
    BY <2>4, <2>5, RoomIsLeft, StoredIsRun
  <2>7. history # <<>>
    <3>1. k + 1 \in DOMAIN history
      BY <2>3 DEF Recall
    <3> QED
      BY <3>1
  <2> QED
    BY <1>1, <2>2, <2>6, <2>7 DEF HistoryInv
<1>2. LineInv /\ HistoryInv /\ [LineNext]_lineVars
        => [at = 0 /\ buf = NoLine /\ Up => CString(buf'.cmd) = last]_lineVars
  BY <1>1
<1>3. LineSpec => [](LineInv /\ HistoryInv)
  BY LineHolds
<1> QED
  BY <1>2, <1>3, PTL DEF LineSpec, UpBringsTheLast

-----------------------------------------------------------------------------
(* The terminal, a row at a time: its cells with a text from a place on.   *)
Row(prompt, cells, place) == [prompt |-> prompt, cells |-> cells, place |-> place]

Over(cells, place, text) ==
  [i \in Cells |-> IF i \in place..(place + Len(text) - 1) THEN text[i - place + 1]
                   ELSE cells[i]]

CellsOf(e) == [i \in Cells |-> IF i < e.l THEN e.cmd[i] ELSE Space]

LEMMA WriteIs ==
  ASSUME NEW prompt, NEW cells, NEW place, NEW text
  PROVE  Write(Row(prompt, cells, place), text)
           = Row(prompt, Over(cells, place, text), place + Len(text))
BY DEF Write, Row, Over

LEMMA BackIs ==
  ASSUME NEW prompt, NEW cells, NEW place, NEW n
  PROVE  Back(Row(prompt, cells, place), n) = Row(prompt, cells, place - n)
BY DEF Back, Row

LEMMA RowIs ==
  ASSUME NEW prompt, NEW e
  PROVE  RowOf(prompt, e) = Row(prompt, CellsOf(e), e.cursor)
BY DEF RowOf, Row, CellsOf

LEMMA CellsAreEqual ==
  ASSUME NEW f, NEW g, f = [i \in Cells |-> f[i]], g = [i \in Cells |-> g[i]],
         \A i \in Cells : f[i] = g[i]
  PROVE  f = g
OBVIOUS

LEMMA CellsOfIs ==
  ASSUME NEW e
  PROVE  /\ CellsOf(e) = [i \in Cells |-> CellsOf(e)[i]]
         /\ \A i \in Cells : CellsOf(e)[i] = IF i < e.l THEN e.cmd[i] ELSE Space
BY DEF CellsOf

LEMMA OverIs ==
  ASSUME NEW cells, NEW place \in Int, NEW text, Len(text) \in Nat
  PROVE  /\ Over(cells, place, text) = [i \in Cells |-> Over(cells, place, text)[i]]
         /\ \A i \in Cells : Over(cells, place, text)[i]
               = IF place <= i /\ i < place + Len(text) THEN text[i - place + 1] ELSE cells[i]
<1>1. \A i \in Cells : i \in Int
  BY DEF Cells
<1>2. \A i \in Cells : i \in place..(place + Len(text) - 1) <=> place <= i /\ i < place + Len(text)
  BY <1>1
<1> QED
  BY <1>2 DEF Over

LEMMA LineNumbers ==
  ASSUME NEW e, IsLine(e)
  PROVE  /\ e.l \in Nat /\ e.cursor \in Nat /\ e.cursor <= e.l /\ e.l <= LineBound
         /\ \A i \in Cells : i \in Nat
BY LineConstants DEF IsLine, Cells

(* A prompt alone, and one with the line behind it.                        *)
LEMMA NewRowShows ==
  ASSUME NEW prompt
  PROVE  NewRow(prompt) = RowOf(prompt, NoLine)
<1>1. \A i \in Cells : ~(i < 0)
  BY DEF Cells
<1> QED
  BY <1>1 DEF NewRow, RowOf, NoLine

LEMMA PromptedShows ==
  ASSUME NEW e, IsLine(e)
  PROVE  Prompted("command", e) = RowOf("command", e)
<1> DEFINE blank == [i \in Cells |-> Space]
           text == Text(e.cmd, 0, e.l)
           from == 0
<1>1. e.l \in Nat /\ e.cursor \in Nat /\ \A i \in Cells : i \in Nat
  BY LineNumbers
<1>2. Len(text) = e.l /\ \A k \in 1..e.l : text[k] = e.cmd[k - 1]
  <2> DEFINE S == {e.cmd[k] : k \in 0..(e.l - 1)}
  <2>1. \A k \in 0..(e.l - 1) : e.cmd[k] \in S
    OBVIOUS
  <2> HIDE DEF S
  <2> QED
    BY <1>1, <2>1, FrontIs
<1>3. NewRow("command") = Row("command", blank, from)
  BY DEF NewRow, Row
<1>4. from = 0
  OBVIOUS
<1>5. Prompted("command", e) = Back(Write(NewRow("command"), text), e.l - e.cursor)
  BY DEF Prompted
<1> HIDE DEF blank, text, from
<1>6. Write(NewRow("command"), text) = Row("command", Over(blank, from, text), from + Len(text))
  BY <1>3, WriteIs
<1>7. Prompted("command", e)
        = Row("command", Over(blank, from, text), (from + Len(text)) - (e.l - e.cursor))
  <2> DEFINE place == from + Len(text)
             n == e.l - e.cursor
             cells == Over(blank, from, text)
  <2>1. Prompted("command", e) = Back(Row("command", cells, place), n)
    BY <1>5, <1>6
  <2> HIDE DEF place, n, cells
  <2>2. Prompted("command", e) = Row("command", cells, place - n)
    BY <2>1, BackIs
  <2> QED
    BY <2>2 DEF place, n, cells
<1>8. (from + Len(text)) - (e.l - e.cursor) = e.cursor
  BY <1>1, <1>2, <1>4
<1>9. Over(blank, from, text) = CellsOf(e)
  <2> DEFINE f == Over(blank, from, text)
  <2>1. Len(text) \in Nat /\ from \in Int
    BY <1>1, <1>2, <1>4
  <2>2. /\ f = [i \in Cells |-> f[i]]
        /\ \A i \in Cells : f[i] = IF from <= i /\ i < from + Len(text) THEN text[i - from + 1]
                                   ELSE blank[i]
    BY <2>1, OverIs
  <2> HIDE DEF f
  <2>3. ASSUME NEW i \in Cells PROVE f[i] = CellsOf(e)[i]
    <3>1. CASE i < e.l
      <4>1. f[i] = text[i + 1] /\ i + 1 \in 1..e.l /\ (i + 1) - 1 = i
        BY <1>1, <1>2, <1>4, <2>2, <3>1
      <4> QED
        BY <1>2, <3>1, <4>1, CellsOfIs
    <3>2. CASE ~(i < e.l)
      BY <1>1, <1>2, <1>4, <2>2, <3>2, CellsOfIs DEF blank
    <3> QED
      BY <3>1, <3>2
  <2> QED
    BY <2>2, <2>3, CellsOfIs, CellsAreEqual DEF f
<1> QED
  BY <1>7, <1>8, <1>9, RowIs

(* A text written over a line, or over what is there of it, is a line.     *)
LEMMA WriteShows ==
  ASSUME NEW prompt, NEW cells, NEW place \in Int, NEW text, Len(text) \in Nat, NEW e,
         \A i \in Cells :
           (IF place <= i /\ i < place + Len(text) THEN text[i - place + 1] ELSE cells[i])
             = (IF i < e.l THEN e.cmd[i] ELSE Space)
  PROVE  Write(Row(prompt, cells, place), text) = Row(prompt, CellsOf(e), place + Len(text))
<1> DEFINE f == Over(cells, place, text)
<1>1. f = [i \in Cells |-> f[i]]
  BY DEF Over
<1>2. Write(Row(prompt, cells, place), text) = Row(prompt, f, place + Len(text))
  BY WriteIs
<1>3. ASSUME NEW i \in Cells PROVE f[i] = CellsOf(e)[i]
  <2>1. f[i] = IF place <= i /\ i < place + Len(text) THEN text[i - place + 1] ELSE cells[i]
    <3>1. i \in Int
      BY DEF Cells
    <3>2. i \in place..(place + Len(text) - 1) <=> place <= i /\ i < place + Len(text)
      BY <3>1
    <3> QED
      BY <3>2 DEF Over
  <2> HIDE DEF f
  <2> QED
    BY <2>1, CellsOfIs
<1> HIDE DEF f
<1>4. f = CellsOf(e)
  BY <1>1, <1>3, CellsOfIs, CellsAreEqual
<1> QED
  BY <1>2, <1>4

LEMMA ClearedShows ==
  ASSUME NEW prompt, NEW e, IsLine(e)
  PROVE  Cleared(RowOf(prompt, e), e) = RowOf(prompt, NoLine)
<1> DEFINE rest == Spaces(e.l - e.cursor)
           all == Spaces(e.l)
           over == Over(CellsOf(e), e.cursor, rest)
           end == e.cursor + Len(rest)
           start == end - e.l
<1>1. e.l \in Nat /\ e.cursor \in Nat /\ e.cursor <= e.l /\ \A i \in Cells : i \in Nat
  BY LineNumbers
<1>2. Len(rest) = e.l - e.cursor /\ \A k \in 1..(e.l - e.cursor) : rest[k] = Space
  BY <1>1, SpacesAre
<1>3. Len(all) = e.l /\ \A k \in 1..e.l : all[k] = Space
  BY <1>1, SpacesAre
<1>4. Cleared(RowOf(prompt, e), e)
        = Back(Write(Back(Write(Row(prompt, CellsOf(e), e.cursor), rest), e.l), all), e.l)
  BY RowIs DEF Cleared
<1> HIDE DEF rest, all
<1>5. Write(Row(prompt, CellsOf(e), e.cursor), rest) = Row(prompt, over, end)
  BY WriteIs
<1>6. \A i \in Cells : over[i] = IF i \in e.cursor..(e.cursor + Len(rest) - 1)
                                 THEN rest[i - e.cursor + 1] ELSE CellsOf(e)[i]
  BY DEF Over
<1>7. end = e.l /\ start = 0
  BY <1>1, <1>2
<1> HIDE DEF over, end
<1>8. Back(Row(prompt, over, end), e.l) = Row(prompt, over, start)
  BY BackIs
<1> HIDE DEF start
<1>9. ASSUME NEW i \in Cells
      PROVE  (IF start <= i /\ i < start + Len(all) THEN all[i - start + 1] ELSE over[i])
               = (IF i < NoLine.l THEN NoLine.cmd[i] ELSE Space)
  <2>1. ~(i < NoLine.l) /\ i \in Nat
    BY <1>1 DEF NoLine
  <2>2. CASE i < e.l
    BY <1>1, <1>3, <1>7, <2>1, <2>2
  <2>3. CASE ~(i < e.l)
    <3>1. i \notin e.cursor..(e.cursor + Len(rest) - 1)
      BY <1>1, <1>2, <2>3
    <3>2. over[i] = CellsOf(e)[i]
      BY <1>6, <3>1
    <3>3. over[i] = Space
      BY <2>3, <3>2, CellsOfIs
    <3> QED
      BY <1>1, <1>3, <1>7, <2>1, <2>3, <3>3
  <2> QED
    BY <2>2, <2>3
<1>10. Write(Row(prompt, over, start), all) = Row(prompt, CellsOf(NoLine), start + Len(all))
  BY <1>1, <1>3, <1>7, <1>9, WriteShows
<1>11. (start + Len(all)) - e.l = NoLine.cursor
  BY <1>1, <1>3, <1>7 DEF NoLine
<1> QED
  BY <1>4, <1>5, <1>8, <1>10, <1>11, BackIs, RowIs

LEMMA KilledShows ==
  ASSUME NEW prompt, NEW e, IsLine(e), NEW f, f.l = e.cursor, f.cursor = e.cursor,
         \A i \in Cells : i < e.cursor => f.cmd[i] = e.cmd[i]
  PROVE  Back(Write(RowOf(prompt, e), Spaces(e.l - e.cursor)), e.l - e.cursor) = RowOf(prompt, f)
<1> DEFINE n == e.l - e.cursor
           rest == Spaces(n)
<1>1. e.l \in Nat /\ e.cursor \in Nat /\ e.cursor <= e.l /\ \A i \in Cells : i \in Nat
  BY LineNumbers
<1>2. n \in Nat /\ e.cursor + n = e.l
  BY <1>1
<1> HIDE DEF n
<1>3. Len(rest) = n /\ \A k \in 1..n : rest[k] = Space
  BY <1>2, SpacesAre
<1> HIDE DEF rest
<1>4. ASSUME NEW i \in Cells
      PROVE  (IF e.cursor <= i /\ i < e.cursor + Len(rest) THEN rest[i - e.cursor + 1]
              ELSE CellsOf(e)[i])
               = (IF i < f.l THEN f.cmd[i] ELSE Space)
  <2>1. CASE i < e.cursor
    BY <1>1, <2>1, CellsOfIs
  <2>2. CASE e.cursor <= i /\ i < e.l
    BY <1>1, <1>2, <1>3, <2>2
  <2>3. CASE e.l <= i
    BY <1>1, <1>2, <1>3, <2>3, CellsOfIs
  <2> QED
    BY <1>1, <2>1, <2>2, <2>3
<1>5. Write(Row(prompt, CellsOf(e), e.cursor), rest) = Row(prompt, CellsOf(f), e.cursor + Len(rest))
  BY <1>1, <1>2, <1>3, <1>4, WriteShows
<1>6. (e.cursor + Len(rest)) - n = f.cursor
  BY <1>1, <1>2, <1>3
<1>7. Back(Write(RowOf(prompt, e), rest), n) = RowOf(prompt, f)
  BY <1>5, <1>6, BackIs, RowIs
<1> QED
  BY <1>7 DEF rest, n

(* A text typed at the end of a line, or a line shown behind a prompt.     *)
LEMMA TypedShows ==
  ASSUME NEW prompt, NEW e, e.l \in Nat, e.cursor = e.l, NEW text, Len(text) \in Nat,
         NEW f, f.l = e.l + Len(text), f.cursor = f.l,
         \A i \in Cells : i < e.l => f.cmd[i] = e.cmd[i],
         \A i \in Cells : e.l <= i /\ i < f.l => f.cmd[i] = text[i - e.l + 1]
  PROVE  Write(RowOf(prompt, e), text) = RowOf(prompt, f)
<1>1. \A i \in Cells : i \in Nat
  BY LineConstants DEF Cells
<1>2. ASSUME NEW i \in Cells
      PROVE  (IF e.cursor <= i /\ i < e.cursor + Len(text) THEN text[i - e.cursor + 1]
              ELSE CellsOf(e)[i])
               = (IF i < f.l THEN f.cmd[i] ELSE Space)
  <2>1. CASE i < e.l
    BY <1>1, <2>1, CellsOfIs
  <2>2. CASE e.l <= i /\ i < f.l
    BY <1>1, <2>2
  <2>3. CASE f.l <= i
    BY <1>1, <2>3, CellsOfIs
  <2> QED
    BY <1>1, <2>1, <2>2, <2>3
<1>3. Write(Row(prompt, CellsOf(e), e.cursor), text) = Row(prompt, CellsOf(f), e.cursor + Len(text))
  BY <1>2, WriteShows
<1>4. e.cursor + Len(text) = f.cursor
  OBVIOUS
<1> QED
  BY <1>3, <1>4, RowIs

(* A part of a line written over itself.                                   *)
LEMMA RewrittenShows ==
  ASSUME NEW prompt, NEW e, NEW place \in Nat, NEW text, Len(text) \in Nat,
         e.l \in Nat, place + Len(text) <= e.l,
         \A k \in 1..Len(text) : text[k] = e.cmd[place + (k - 1)]
  PROVE  Write(Row(prompt, CellsOf(e), place), text) = Row(prompt, CellsOf(e), place + Len(text))
<1>1. \A i \in Cells : i \in Nat
  BY LineConstants DEF Cells
<1>2. ASSUME NEW i \in Cells
      PROVE  (IF place <= i /\ i < place + Len(text) THEN text[i - place + 1] ELSE CellsOf(e)[i])
               = (IF i < e.l THEN e.cmd[i] ELSE Space)
  <2>1. CASE place <= i /\ i < place + Len(text)
    <3>1. i - place + 1 \in 1..Len(text) /\ place + ((i - place + 1) - 1) = i /\ i < e.l
      BY <1>1, <2>1
    <3> QED
      BY <2>1, <3>1
  <2>2. CASE ~(place <= i /\ i < place + Len(text))
    BY <2>2, CellsOfIs
  <2> QED
    BY <2>1, <2>2
<1> QED
  BY <1>2, WriteShows

LEMMA CutKeepsFront ==
  ASSUME NEW e, IsLine(e), NEW n \in 1..e.cursor, ~Hidden
  PROVE  \A i \in Cells : i < e.cursor - n => Cut(e, n)[i] = e.cmd[i]
<1>1. /\ e.cursor \in Nat /\ n \in Nat /\ n <= e.cursor
      /\ \A i \in Cells : i \in Nat
  BY LineNumbers
<1>2. CASE e.l = e.cursor
  <2>1. \A i \in Cells : Cut(e, n)[i] = IF i \in (e.cursor - n)..(e.cursor - 1) THEN Nul ELSE e.cmd[i]
    BY <1>2 DEF Cut
  <2> QED
    BY <1>1, <2>1
<1>3. CASE e.l # e.cursor
  <2>1. \A i \in Cells : Cut(e, n)[i] = IF i < e.cursor - n \/ i > e.l THEN e.cmd[i]
                                         ELSE e.cmd[Min({i + n, e.l + 1, MaxLength - 1})]
    BY <1>3 DEF Cut, Shifted
  <2> QED
    BY <1>1, <2>1
<1> QED
  BY <1>2, <1>3

LEMMA PartIs ==
  ASSUME NEW e, IsLine(e), LineBound < MaxLength,
         NEW from \in Nat, NEW to \in Nat, from <= to, to <= e.l
  PROVE  /\ Text(e.cmd, from, to) \in Seq(Typable)
         /\ Len(Text(e.cmd, from, to)) = to - from
         /\ \A k \in 1..(to - from) : Text(e.cmd, from, to)[k] = e.cmd[from + k - 1]
<1>1. \A k \in from..(to - 1) : e.cmd[k] \in Typable
  <2> TAKE k \in from..(to - 1)
  <2>1. e.l \in Nat /\ e.l <= LineBound
    BY LineNumbers
  <2>2. k \in Cells
    BY <2>1, LineConstants DEF Cells
  <2> QED
    BY <2>2 DEF IsLine
<1> QED
  BY <1>1, TextIs

(* What is left of a line, a blank for each character that went.           *)
IsErased(e, f, start, n, rest, moved) ==
  /\ start \in Nat /\ n \in Nat /\ rest \in Nat
  /\ e.l = start + n + rest /\ e.cursor = start + n
  /\ f.l = start + rest /\ f.cursor = start
  /\ \A i \in Cells : i < start => f.cmd[i] = e.cmd[i]
  /\ moved \in Seq(Typable) /\ Len(moved) = rest
  /\ \A k \in 1..rest : moved[k] = f.cmd[start + k - 1]

LEMMA ErasedShows ==
  ASSUME NEW prompt, NEW e, NEW f, NEW start, NEW n, NEW rest, NEW moved,
         IsErased(e, f, start, n, rest, moved)
  PROVE  Back(Write(Back(RowOf(prompt, e), n), moved \o Spaces(n)), Len(moved) + n)
           = RowOf(prompt, f)
<1> USE DEF IsErased
<1> DEFINE blanks == Spaces(n)
           text == moved \o blanks
<1>1. \A i \in Cells : i \in Nat
  BY LineConstants DEF Cells
<1>3. /\ blanks \in Seq(Typable) /\ Len(blanks) = n
      /\ \A k \in 1..n : blanks[k] = Space
  <2>1. {Space} \subseteq Typable
    BY LineConstants DEF Typable
  <2> QED
    BY <2>1, SpacesAre, SeqMonotonic
<1> HIDE DEF blanks
<1>4. /\ Len(text) = Len(moved) + Len(blanks)
      /\ \A k \in 1..(Len(moved) + Len(blanks)) :
           text[k] = IF k <= Len(moved) THEN moved[k] ELSE blanks[k - Len(moved)]
  BY <1>3, ConcatProperties
<1> HIDE DEF text
<1>5. /\ Len(text) = rest + n
      /\ \A k \in 1..(rest + n) :
           text[k] = IF k <= rest THEN f.cmd[start + k - 1] ELSE Space
  <2>1. ASSUME NEW k \in 1..(rest + n)
        PROVE  text[k] = IF k <= rest THEN f.cmd[start + k - 1] ELSE Space
    <3>1. CASE k <= rest
      BY <1>3, <1>4, <3>1
    <3>2. CASE ~(k <= rest)
      <4>1. k - rest \in 1..n
        BY <3>2
      <4> QED
        BY <1>3, <1>4, <3>2, <4>1
    <3> QED
      BY <3>1, <3>2
  <2> QED
    BY <1>3, <1>4, <2>1
<1>6. ASSUME NEW i \in Cells
      PROVE  (IF start <= i /\ i < start + Len(text) THEN text[i - start + 1] ELSE CellsOf(e)[i])
               = (IF i < f.l THEN f.cmd[i] ELSE Space)
  <2>1. CASE i < start
    BY <1>1, <1>5, <2>1, CellsOfIs
  <2>2. CASE start <= i /\ i < start + (rest + n)
    <3> DEFINE k == i - start + 1
    <3>1. k \in 1..(rest + n) /\ start + k - 1 = i /\ (k <= rest <=> i < start + rest)
      BY <1>1, <2>2
    <3> HIDE DEF k
    <3>2. text[k] = IF i < start + rest THEN f.cmd[i] ELSE Space
      BY <1>5, <3>1
    <3> QED
      BY <1>5, <2>2, <3>2 DEF k
  <2>3. CASE start + (rest + n) <= i
    BY <1>1, <1>5, <2>3, CellsOfIs
  <2> QED
    BY <1>1, <2>1, <2>2, <2>3
<1>7. Len(text) \in Nat
  BY <1>5
<1>8. Write(Row(prompt, CellsOf(e), start), text) = Row(prompt, CellsOf(f), start + Len(text))
  BY <1>6, <1>7, WriteShows
<1>9. Back(RowOf(prompt, e), n) = Row(prompt, CellsOf(e), start)
  <2>1. (start + n) - n = start
    OBVIOUS
  <2>2. Back(Row(prompt, CellsOf(e), start + n), n) = Row(prompt, CellsOf(e), (start + n) - n)
    BY BackIs
  <2> QED
    BY <2>1, <2>2, RowIs
<1>10. Back(Row(prompt, CellsOf(f), start + Len(text)), Len(moved) + n) = Row(prompt, CellsOf(f), start)
  <2>1. (start + Len(text)) - (Len(moved) + n) = start
    BY <1>5
  <2>2. Back(Row(prompt, CellsOf(f), start + Len(text)), Len(moved) + n)
          = Row(prompt, CellsOf(f), (start + Len(text)) - (Len(moved) + n))
    BY BackIs
  <2> QED
    BY <2>1, <2>2
<1>11. Back(Write(Back(RowOf(prompt, e), n), text), Len(moved) + n) = RowOf(prompt, f)
  BY <1>8, <1>9, <1>10, RowIs
<1> QED
  BY <1>11 DEF text, blanks

(* A letter in front of the rest of a line.                                *)
IsInserted(e, f, start, rest, c, text) ==
  /\ start \in Nat /\ rest \in Nat
  /\ e.l = start + rest /\ e.cursor = start
  /\ f.l = start + rest + 1 /\ f.cursor = start + 1
  /\ \A i \in Cells : i < start => f.cmd[i] = e.cmd[i]
  /\ f.cmd[start] = c
  /\ Len(text) = rest + 1
  /\ \A k \in 1..(rest + 1) : text[k] = f.cmd[start + k - 1]

LEMMA InsertedShows ==
  ASSUME NEW prompt, NEW e, NEW f, NEW start, NEW rest, NEW c, NEW text,
         IsInserted(e, f, start, rest, c, text)
  PROVE  Write(Back(Write(RowOf(prompt, e), text), rest + 1), <<c>>) = RowOf(prompt, f)
<1> USE DEF IsInserted
<1> DEFINE one == <<c>>
           n == rest + 1
<1>1. \A i \in Cells : i \in Nat
  BY LineConstants DEF Cells
<1>2. n \in Nat /\ n = rest + 1
  OBVIOUS
<1>3. Len(one) = 1 /\ one[1] = c
  OBVIOUS
<1> HIDE DEF one, n
<1>4. Len(text) = n /\ \A k \in 1..n : text[k] = f.cmd[start + k - 1]
  BY <1>2
<1>5. ASSUME NEW i \in Cells
      PROVE  (IF start <= i /\ i < start + Len(text) THEN text[i - start + 1] ELSE CellsOf(e)[i])
               = (IF i < f.l THEN f.cmd[i] ELSE Space)
  <2>1. CASE i < start
    BY <1>1, <1>2, <1>4, <2>1, CellsOfIs
  <2>2. CASE start <= i /\ i < start + n
    <3> DEFINE k == i - start + 1
    <3>1. k \in 1..n /\ start + k - 1 = i
      BY <1>1, <1>2, <2>2
    <3> HIDE DEF k
    <3>2. text[k] = f.cmd[i]
      BY <1>4, <3>1
    <3> QED
      BY <1>1, <1>2, <1>4, <2>2, <3>2 DEF k
  <2>3. CASE start + n <= i
    BY <1>1, <1>2, <1>4, <2>3, CellsOfIs
  <2> QED
    BY <1>1, <1>2, <2>1, <2>2, <2>3
<1>6. Write(Row(prompt, CellsOf(e), start), text) = Row(prompt, CellsOf(f), start + Len(text))
  <2>1. start \in Int /\ Len(text) \in Nat
    BY <1>2, <1>4
  <2> HIDE DEF IsInserted
  <2> QED
    BY <1>5, <2>1, WriteShows
<1>7. Back(Row(prompt, CellsOf(f), start + Len(text)), n) = Row(prompt, CellsOf(f), start)
  <2>1. (start + Len(text)) - n = start
    BY <1>2, <1>4
  <2>2. Back(Row(prompt, CellsOf(f), start + Len(text)), n)
          = Row(prompt, CellsOf(f), (start + Len(text)) - n)
    BY BackIs
  <2> QED
    BY <2>1, <2>2
<1>8. Write(Row(prompt, CellsOf(f), start), one) = Row(prompt, CellsOf(f), start + Len(one))
  <2>1. Len(one) \in Nat /\ f.l \in Nat /\ start + Len(one) <= f.l
    BY <1>3
  <2>2. \A k \in 1..Len(one) : one[k] = f.cmd[start + (k - 1)]
    BY <1>3
  <2> QED
    BY <2>1, <2>2, RewrittenShows
<1>9. start + Len(one) = f.cursor
  BY <1>3
<1>10. Write(Back(Write(RowOf(prompt, e), text), n), one) = RowOf(prompt, f)
  BY <1>6, <1>7, <1>8, <1>9, RowIs
<1> QED
  BY <1>10 DEF n, one

(* A word taken back and typed again, as long at least.                    *)
IsRetyped(e, f, start, typed, len, text) ==
  /\ start \in Nat /\ typed \in Nat /\ len \in Nat /\ typed <= len
  /\ e.l = start + typed /\ e.cursor = e.l
  /\ Len(text) = len
  /\ f.l = start + len /\ f.cursor = f.l
  /\ \A i \in Cells : i < start => f.cmd[i] = e.cmd[i]
  /\ \A i \in Cells : start <= i /\ i < start + len => f.cmd[i] = text[i - start + 1]

LEMMA RetypedShows ==
  ASSUME NEW prompt, NEW e, NEW f, NEW start, NEW typed, NEW len, NEW text,
         IsRetyped(e, f, start, typed, len, text)
  PROVE  Write(Back(RowOf(prompt, e), typed), text) = RowOf(prompt, f)
<1> USE DEF IsRetyped
<1>1. \A i \in Cells : i \in Nat
  BY LineConstants DEF Cells
<1>2. ASSUME NEW i \in Cells
      PROVE  (IF start <= i /\ i < start + Len(text) THEN text[i - start + 1] ELSE CellsOf(e)[i])
               = (IF i < f.l THEN f.cmd[i] ELSE Space)
  <2>1. CASE i < start
    BY <1>1, <2>1, CellsOfIs
  <2>2. CASE start <= i /\ i < start + len
    BY <1>1, <2>2
  <2>3. CASE start + len <= i
    BY <1>1, <2>3, CellsOfIs
  <2> QED
    BY <1>1, <2>1, <2>2, <2>3
<1>3. Write(Row(prompt, CellsOf(e), start), text) = Row(prompt, CellsOf(f), start + Len(text))
  <2>1. start \in Int /\ Len(text) \in Nat
    OBVIOUS
  <2> HIDE DEF IsRetyped
  <2> QED
    BY <1>2, <2>1, WriteShows
<1>4. Back(RowOf(prompt, e), typed) = Row(prompt, CellsOf(e), start)
  <2>1. (start + typed) - typed = start
    OBVIOUS
  <2>2. Back(Row(prompt, CellsOf(e), start + typed), typed)
          = Row(prompt, CellsOf(e), (start + typed) - typed)
    BY BackIs
  <2> QED
    BY <2>1, <2>2, RowIs
<1>5. start + Len(text) = f.cursor
  OBVIOUS
<1> QED
  BY <1>3, <1>4, <1>5, RowIs

LEMMA EraseShows ==
  ASSUME Ready, LineInv, ~Hidden, term = RowOf(asks, buf), NEW n \in 0..buf.cursor, Erase(n)
  PROVE  term' = RowOf(asks, buf')
<1>1. /\ n \in 1..buf.cursor
      /\ buf' = [cmd |-> Cut(buf, n), l |-> buf.l - n, cursor |-> buf.cursor - n]
  BY EraseKeeps
<1>2. IsLine(buf) /\ IsLine(buf')
  BY EraseKeeps DEF LineInv
<1>3. PICK start \in Nat, rest \in Nat, k \in Nat :
        /\ n = k /\ buf.l = start + k + rest /\ buf.cursor = start + k
        /\ buf'.l = start + rest /\ buf'.cursor = start
  <2>1. buf.l \in Nat /\ buf.cursor \in Nat /\ buf.cursor <= buf.l
    BY <1>2, LineNumbers
  <2> DEFINE start == buf.cursor - n
             rest == buf.l - buf.cursor
  <2>2. start \in Nat /\ rest \in Nat /\ n \in Nat
    BY <1>1, <2>1
  <2>3. /\ buf.l = start + n + rest /\ buf.cursor = start + n
        /\ buf'.l = start + rest /\ buf'.cursor = start
    BY <1>1, <2>1
  <2> HIDE DEF start, rest
  <2> QED
    BY <2>2, <2>3
<1>4. \A i \in Cells : i < start => buf'.cmd[i] = buf.cmd[i]
  <2>1. \A i \in Cells : i < buf.cursor - n => Cut(buf, n)[i] = buf.cmd[i]
    BY <1>1, <1>2, CutKeepsFront
  <2>2. buf.cursor - n = start
    BY <1>3
  <2> QED
    BY <1>1, <2>1, <2>2
<1> DEFINE moved == Text(buf'.cmd, start, start + rest)
<1>5. /\ moved \in Seq(Typable)
      /\ Len(moved) = rest
      /\ \A j \in 1..rest : moved[j] = buf'.cmd[start + j - 1]
  <2>1. PICK to \in Nat : to = start + rest
    OBVIOUS
  <2>4. start \in Nat /\ to \in Nat /\ start <= to /\ to <= buf'.l /\ IsLine(buf') /\ LineBound < MaxLength
    BY <1>2, <1>3, <2>1, RoomIsLeft
  <2>2. /\ Text(buf'.cmd, start, to) \in Seq(Typable)
        /\ Len(Text(buf'.cmd, start, to)) = to - start
        /\ \A j \in 1..(to - start) : Text(buf'.cmd, start, to)[j] = buf'.cmd[start + j - 1]
    BY <2>4, PartIs
  <2>3. to - start = rest
    BY <2>1
  <2> QED
    BY <2>1, <2>2, <2>3
<1>6. term' = Back(Write(Back(term, n), moved \o Spaces(n)), Len(moved) + n)
  <2>1. End(buf'.cmd, start) = start + rest
    BY <1>2, <1>3, RoomIsLeft, EndIs
  <2>2. Cut(buf, n) = buf'.cmd /\ buf.cursor - n = start
    BY <1>1, <1>3
  <2> QED
    BY <2>1, <2>2 DEF Erase, Echo
<1> HIDE DEF moved
<1>7. Back(Write(Back(RowOf(asks, buf), k), moved \o Spaces(k)), Len(moved) + k) = RowOf(asks, buf')
  <2>1. IsErased(buf, buf', start, k, rest, moved)
    BY <1>3, <1>4, <1>5 DEF IsErased
  <2> QED
    BY <2>1, ErasedShows
<1> QED
  BY <1>3, <1>6, <1>7

LEMMA InsertShows ==
  ASSUME Ready, LineInv, term = RowOf(asks, buf), NEW c \in Letters, Insert(c)
  PROVE  term' = RowOf(asks, buf')
<1>1. /\ buf' = [cmd |-> [i \in Cells |-> IF i = buf.cursor THEN c
                                          ELSE IF i \in (buf.cursor + 1)..(buf.l + 1)
                                          THEN buf.cmd[i - 1] ELSE buf.cmd[i]],
                 l |-> buf.l + 1, cursor |-> buf.cursor + 1]
      /\ term' = Write(Back(Write(term, Text(buf'.cmd, buf.cursor, buf.l + 1)),
                            buf.l - buf.cursor + 1), <<c>>)
      /\ buf.cursor < buf.l
  BY InsertKeeps
<1>2. /\ buf.l \in Nat /\ buf.cursor \in Nat /\ buf.cursor <= buf.l /\ buf.l <= LineBound
      /\ \A i \in Cells : i \in Nat
  BY LineNumbers DEF LineInv
<1>9. IsLine(buf')
  BY InsertKeeps
<1>3. PICK start \in Nat, rest \in Nat :
        /\ buf.l = start + rest /\ buf.cursor = start
        /\ buf'.l = start + rest + 1 /\ buf'.cursor = start + 1
  <2>1. buf.l - buf.cursor \in Nat /\ buf.cursor + (buf.l - buf.cursor) = buf.l
    BY <1>2
  <2> QED
    BY <1>1, <1>2, <2>1
<1>4. \A i \in Cells : i < start => buf'.cmd[i] = buf.cmd[i]
  BY <1>1, <1>2, <1>3
<1>5. buf'.cmd[start] = c
  <2>1. start \in Cells
    BY <1>2, <1>3, RoomIsLeft, LineConstants DEF Cells
  <2> QED
    BY <1>1, <1>3, <2>1
<1> DEFINE text == Text(buf'.cmd, start, start + rest + 1)
<1>6. /\ Len(text) = rest + 1
      /\ \A j \in 1..(rest + 1) : text[j] = buf'.cmd[start + j - 1]
  <2>1. PICK to \in Nat : to = start + rest + 1
    OBVIOUS
  <2>4. start \in Nat /\ to \in Nat /\ start <= to /\ to <= buf'.l /\ IsLine(buf') /\ LineBound < MaxLength
    BY <1>2, <1>3, <1>9, <2>1, RoomIsLeft
  <2>2. /\ Len(Text(buf'.cmd, start, to)) = to - start
        /\ \A j \in 1..(to - start) : Text(buf'.cmd, start, to)[j] = buf'.cmd[start + j - 1]
    BY <2>4, PartIs
  <2>3. to - start = rest + 1
    BY <2>1
  <2> QED
    BY <2>1, <2>2, <2>3
<1>7. term' = Write(Back(Write(term, text), rest + 1), <<c>>)
  <2>1. buf.l - buf.cursor = rest
    BY <1>3
  <2> QED
    BY <1>1, <1>3, <2>1
<1> HIDE DEF text
<1>8. Write(Back(Write(RowOf(asks, buf), text), rest + 1), <<c>>) = RowOf(asks, buf')
  <2>1. IsInserted(buf, buf', start, rest, c, text)
    BY <1>3, <1>4, <1>5, <1>6 DEF IsInserted
  <2> QED
    BY <2>1, InsertedShows
<1> QED
  BY <1>7, <1>8

LEMMA AppendShows ==
  ASSUME Ready, LineInv, ~Hidden, term = RowOf(asks, buf), NEW c \in Letters, AppendLetter(c)
  PROVE  term' = RowOf(asks, buf')
<1> DEFINE one == <<c>>
<1>1. /\ buf' = [cmd |-> [buf.cmd EXCEPT ![buf.cursor] = c],
                 l |-> buf.l + 1, cursor |-> buf.cursor + 1]
      /\ term' = Write(term, one)
      /\ buf.cursor = buf.l
  BY AppendKeeps DEF Echo
<1>2. Len(one) = 1 /\ one[1] = c
  OBVIOUS
<1>3. IsLine(buf) /\ buf.l \in Nat /\ \A i \in Cells : i \in Nat
  BY LineNumbers DEF LineInv
<1>4. buf.cmd \in [Cells -> Typable]
  BY <1>3 DEF IsLine
<1>5. \A i \in Cells : buf'.cmd[i] = IF i = buf.l THEN c ELSE buf.cmd[i]
  BY <1>1, <1>4
<1> HIDE DEF one
<1>6. buf'.l = buf.l + Len(one) /\ buf'.cursor = buf'.l
  BY <1>1, <1>2
<1>7. \A i \in Cells : i < buf.l => buf'.cmd[i] = buf.cmd[i]
  BY <1>3, <1>5
<1>8. \A i \in Cells : buf.l <= i /\ i < buf'.l => buf'.cmd[i] = one[i - buf.l + 1]
  <2> TAKE i \in Cells
  <2> HAVE buf.l <= i /\ i < buf'.l
  <2>1. i = buf.l /\ i - buf.l + 1 = 1
    BY <1>2, <1>3, <1>6
  <2> QED
    BY <1>2, <1>5, <2>1
<1>9. Write(RowOf(asks, buf), one) = RowOf(asks, buf')
  <2>1. buf.cursor = buf.l /\ Len(one) \in Nat /\ buf.l \in Nat
    BY <1>1, <1>2, <1>3
  <2> QED
    BY <1>6, <1>7, <1>8, <2>1, TypedShows
<1> QED
  BY <1>1, <1>9

LEMMA KillShows ==
  ASSUME Ready, LineInv, ~Hidden, term = RowOf(asks, buf), KillToEnd
  PROVE  term' = RowOf(asks, buf')
<1>1. IsLine(buf)
  BY DEF LineInv
<1>2. /\ buf' = [buf EXCEPT !.l = buf.cursor,
                            !.cmd = [i \in Cells |-> IF i \in buf.cursor..(buf.l - 1)
                                                     THEN Nul ELSE @[i]]]
      /\ term' = Back(Write(term, Spaces(buf.l - buf.cursor)), buf.l - buf.cursor)
  BY DEF KillToEnd, Echo
<1>3. buf' = [cmd |-> [i \in Cells |-> IF i \in buf.cursor..(buf.l - 1) THEN Nul ELSE buf.cmd[i]],
              l |-> buf.cursor, cursor |-> buf.cursor]
  BY <1>1, <1>2 DEF IsLine
<1>4. \A i \in Cells : i < buf.cursor => buf'.cmd[i] = buf.cmd[i]
  BY <1>1, <1>3, LineNumbers
<1>5. buf'.l = buf.cursor /\ buf'.cursor = buf.cursor
  BY <1>3
<1>6. Back(Write(RowOf(asks, buf), Spaces(buf.l - buf.cursor)), buf.l - buf.cursor)
        = RowOf(asks, buf')
  BY <1>1, <1>4, <1>5, KilledShows
<1> QED
  BY <1>2, <1>6

LEMMA RecallShows ==
  ASSUME Ready, LineInv, HistoryInv, term = RowOf(asks, buf), NEW k \in Int, Recall(k)
  PROVE  term' = RowOf(asks, buf')
<1> DEFINE text == history[k + 1]
<1>1. /\ text \in Seq(Letters) /\ Len(text) \in 1..LineBound
      /\ buf' = Stored(text)
  BY RecallKeeps
<1>2. term' = Write(Cleared(term, buf), text)
  BY DEF Recall
<1> HIDE DEF text
<1>3. Cleared(term, buf) = RowOf(asks, NoLine)
  BY ClearedShows DEF LineInv
<1>4. Len(text) \in Nat
  BY <1>1
<1>5. NoLine.l = 0 /\ NoLine.cursor = NoLine.l
  BY DEF NoLine
<1>6. buf'.l = Len(text) /\ buf'.cursor = buf'.l
  BY <1>1 DEF Stored
<1>7. ASSUME NEW i \in Cells
      PROVE  /\ i < NoLine.l => buf'.cmd[i] = NoLine.cmd[i]
             /\ NoLine.l <= i /\ i < buf'.l => buf'.cmd[i] = text[i - NoLine.l + 1]
  <2>1. i \in Nat /\ i - NoLine.l + 1 = i + 1
    BY <1>5 DEF Cells
  <2>2. buf'.cmd[i] = IF i < Len(text) THEN text[i + 1] ELSE Nul
    BY <1>1 DEF Stored
  <2> QED
    BY <1>5, <1>6, <2>1, <2>2
<1>8. Write(RowOf(asks, NoLine), text) = RowOf(asks, buf')
  <2>1. NoLine.l \in Nat /\ buf'.l = NoLine.l + Len(text)
    BY <1>4, <1>5, <1>6
  <2> QED
    BY <1>4, <1>5, <1>6, <1>7, <2>1, TypedShows
<1> QED
  BY <1>2, <1>3, <1>8

LEMMA CompleteShows ==
  ASSUME Ready, LineInv, term = RowOf(asks, buf), NEW name \in Names, Complete(name)
  PROVE  term' = RowOf(asks, buf')
<1> DEFINE start == Max({0} \cup {i \in 1..buf.l : buf.cmd[i - 1] = Space})
           typed == Text(buf.cmd, start, buf.l)
           text == name \o <<Space>>
           all == Text(buf.cmd, 0, start) \o name \o <<Space>>
<1>1. /\ buf.cursor = buf.l
      /\ IsPrefix(typed, name)
      /\ start + Len(name) + 1 <= LineBound
      /\ buf' = Stored(all)
      /\ term' = Write(Back(term, buf.l - start), text)
  BY DEF Complete
<1>2. buf.l \in Nat /\ IsLine(buf) /\ buf.l <= LineBound /\ \A i \in Cells : i \in Nat
  BY LineNumbers DEF LineInv
<1>3. start \in 0..buf.l
  BY <1>2, StartIsInLine
<1>4. name \in Seq(Letters)
  BY LineConstants, SeqMonotonic
<1> HIDE DEF start
<1>5. Len(typed) = buf.l - start
  <2>1. PICK to \in Nat : to = buf.l
    BY <1>2
  <2>2. start \in Nat /\ to \in Nat /\ start <= to /\ to <= buf.l /\ IsLine(buf) /\ LineBound < MaxLength
    BY <1>2, <1>3, <2>1, RoomIsLeft
  <2>3. Len(Text(buf.cmd, start, to)) = to - start
    BY <2>2, PartIs
  <2> QED
    BY <2>1, <2>3
<1>6. /\ Len(all) = start + Len(name) + 1
      /\ \A k \in 1..(start + Len(name) + 1) :
           all[k] = IF k <= start THEN buf.cmd[k - 1]
                    ELSE IF k <= start + Len(name) THEN name[k - start]
                    ELSE Space
  BY <1>2, <1>3, <1>4, RoomIsLeft, CompletedText
<1>7. /\ Len(text) = Len(name) + 1
      /\ \A k \in 1..(Len(name) + 1) : text[k] = IF k <= Len(name) THEN name[k] ELSE Space
  <2> DEFINE space == <<Space>>
  <2>1. space \in Seq(Letters) /\ Len(space) = 1 /\ space[1] = Space
    BY LineConstants
  <2>2. Len(name) \in Nat
    BY <1>4, LenProperties
  <2> HIDE DEF space
  <2>3. /\ Len(name \o space) = Len(name) + Len(space)
        /\ \A k \in 1..(Len(name) + Len(space)) :
             (name \o space)[k] = IF k <= Len(name) THEN name[k] ELSE space[k - Len(name)]
    BY <1>4, <2>1, ConcatProperties
  <2>4. ASSUME NEW k \in 1..(Len(name) + 1)
        PROVE  (name \o space)[k] = IF k <= Len(name) THEN name[k] ELSE Space
    <3>1. CASE k <= Len(name)
      BY <2>1, <2>2, <2>3, <3>1
    <3>2. CASE ~(k <= Len(name))
      <4>1. k - Len(name) = 1
        BY <2>2, <3>2
      <4> QED
        BY <2>1, <2>2, <2>3, <3>2, <4>1
    <3> QED
      BY <3>1, <3>2
  <2> QED
    BY <2>1, <2>3, <2>4 DEF space
<1>8. Len(typed) <= Len(name) /\ Len(name) \in Nat
  BY <1>1, <1>4, LenProperties DEF IsPrefix
<1> HIDE DEF typed, text, all
<1>9. PICK back \in Nat, len \in Nat :
        back = buf.l - start /\ len = Len(name) + 1 /\ back <= len
  BY <1>2, <1>3, <1>5, <1>8
<1>10. IsRetyped(buf, buf', start, back, len, text)
  <2>1. buf'.l = Len(all) /\ buf'.cursor = Len(all)
    BY <1>1 DEF Stored
  <2>2. /\ start \in Nat /\ back <= len
        /\ buf.l = start + back /\ buf.cursor = buf.l
        /\ Len(text) = len
        /\ buf'.l = start + len /\ buf'.cursor = buf'.l
    BY <1>1, <1>2, <1>3, <1>6, <1>7, <1>8, <1>9, <2>1
  <2>3. ASSUME NEW i \in Cells, i < start + len
        PROVE  buf'.cmd[i] = IF i < start THEN buf.cmd[i] ELSE text[i - start + 1]
    <3> DEFINE k == i + 1
    <3>1. k \in 1..(start + Len(name) + 1) /\ k - 1 = i
      BY <1>2, <1>8, <1>9, <2>2, <2>3
    <3>2. buf'.cmd[i] = all[k]
      <4>1. i < Len(all)
        BY <1>6, <1>8, <1>9, <2>2, <2>3
      <4> QED
        BY <1>1, <4>1 DEF Stored
    <3> HIDE DEF k
    <3>3. CASE i < start
      <4>1. k <= start
        BY <1>2, <2>2, <3>1, <3>3
      <4> QED
        BY <1>6, <3>1, <3>2, <3>3, <4>1
    <3>4. CASE ~(i < start)
      <4>1. ~(k <= start) /\ k - start = i - start + 1
        BY <1>2, <2>2, <3>1, <3>4
      <4>2. k - start \in 1..(Len(name) + 1)
                /\ (k - start <= Len(name) <=> k <= start + Len(name))
        BY <1>8, <2>2, <3>1, <4>1
      <4>3. all[k] = IF k <= start + Len(name) THEN name[k - start] ELSE Space
        BY <1>6, <3>1, <4>1
      <4>4. text[k - start] = IF k - start <= Len(name) THEN name[k - start] ELSE Space
        BY <1>7, <4>2
      <4>5. all[k] = text[k - start]
        BY <4>2, <4>3, <4>4
      <4> QED
        BY <3>2, <3>4, <4>1, <4>5
    <3> QED
      BY <3>3, <3>4
  <2>4. ASSUME NEW i \in Cells, i < start PROVE buf'.cmd[i] = buf.cmd[i]
    <3>1. i < start + len
      BY <1>2, <1>9, <2>2, <2>4
    <3> QED
      BY <2>3, <2>4, <3>1
  <2>5. ASSUME NEW i \in Cells, start <= i, i < start + len
        PROVE  buf'.cmd[i] = text[i - start + 1]
    <3>1. ~(i < start)
      BY <1>2, <2>2, <2>5
    <3> QED
      BY <2>3, <2>5, <3>1
  <2> QED
    BY <1>9, <2>2, <2>4, <2>5 DEF IsRetyped
<1>11. Write(Back(RowOf(asks, buf), back), text) = RowOf(asks, buf')
  BY <1>10, RetypedShows
<1> QED
  BY <1>1, <1>9, <1>11 DEF text

(* The cursor alone.                                                       *)
LEMMA MoveShows ==
  ASSUME LineInv, ~Hidden, term = RowOf(asks, buf),
         \/ Left \/ Right \/ ToEnd
         \/ ToStart /\ asks = "command",
         LineBound < MaxLength
  PROVE  asks' = asks /\ term' = RowOf(asks, buf')
<1>1. /\ IsLine(buf) /\ buf.l \in Nat /\ buf.cursor \in Nat /\ buf.cursor <= buf.l
      /\ buf.l <= LineBound
  BY LineNumbers DEF LineInv
<1>2. term = Row(asks, CellsOf(buf), buf.cursor)
  BY RowIs
<1>3. ASSUME NEW to, buf' = [buf EXCEPT !.cursor = to], term' = Row(asks, CellsOf(buf), to)
      PROVE  term' = RowOf(asks, buf')
  <2>1. buf'.l = buf.l /\ buf'.cmd = buf.cmd /\ buf'.cursor = to
    BY <1>1, <1>3 DEF IsLine
  <2>2. CellsOf(buf') = CellsOf(buf)
    BY <2>1 DEF CellsOf
  <2> QED
    BY <1>3, <2>1, <2>2, RowIs
<1>4. CASE Left
  <2>1. asks' = asks /\ buf' = [buf EXCEPT !.cursor = buf.cursor - 1] /\ term' = Back(term, 1)
    BY <1>4 DEF Left, Moves, Echo
  <2> DEFINE to == buf.cursor - 1
  <2>2. term' = Row(asks, CellsOf(buf), to)
    BY <1>2, <2>1, BackIs
  <2> HIDE DEF to
  <2>3. buf' = [buf EXCEPT !.cursor = to]
    BY <2>1 DEF to
  <2> QED
    BY <1>3, <2>1, <2>2, <2>3
<1>5. ASSUME NEW text, Len(text) \in Nat, buf.cursor + Len(text) <= buf.l,
             \A k \in 1..Len(text) : text[k] = buf.cmd[buf.cursor + (k - 1)],
             NEW to, to = buf.cursor + Len(text),
             Moves(to, Echo(Write(term, text)))
      PROVE  asks' = asks /\ term' = RowOf(asks, buf')
  <2>1. asks' = asks /\ buf' = [buf EXCEPT !.cursor = to] /\ term' = Write(term, text)
    BY <1>5 DEF Moves, Echo
  <2>2. Write(Row(asks, CellsOf(buf), buf.cursor), text)
          = Row(asks, CellsOf(buf), buf.cursor + Len(text))
    <3>1. PICK place \in Nat : place = buf.cursor
      BY <1>1
    <3>2. /\ Len(text) \in Nat /\ buf.l \in Nat /\ place + Len(text) <= buf.l
          /\ \A k \in 1..Len(text) : text[k] = buf.cmd[place + (k - 1)]
      BY <1>1, <1>5, <3>1
    <3>3. Write(Row(asks, CellsOf(buf), place), text) = Row(asks, CellsOf(buf), place + Len(text))
      BY <3>2, RewrittenShows
    <3> QED
      BY <3>1, <3>3
  <2>3. term' = Row(asks, CellsOf(buf), to)
    BY <1>2, <1>5, <2>1, <2>2
  <2> QED
    BY <1>3, <2>1, <2>3
<1>6. CASE Right
  <2> DEFINE text == <<buf.cmd[buf.cursor]>>
             to == buf.cursor + 1
  <2>1. buf.cursor < buf.l /\ Moves(to, Echo(Write(term, text)))
    BY <1>6 DEF Right
  <2>2. Len(text) = 1 /\ text[1] = buf.cmd[buf.cursor]
    OBVIOUS
  <2> HIDE DEF text
  <2>3. /\ Len(text) \in Nat /\ buf.cursor + Len(text) <= buf.l /\ to = buf.cursor + Len(text)
        /\ \A k \in 1..Len(text) : k = 1
    BY <1>1, <2>1, <2>2
  <2> HIDE DEF to
  <2>4. \A k \in 1..Len(text) : text[k] = buf.cmd[buf.cursor + (k - 1)]
    <3> TAKE k \in 1..Len(text)
    <3>1. k = 1
      BY <2>3
    <3>2. buf.cursor + (k - 1) = buf.cursor
      BY <1>1, <3>1
    <3> QED
      BY <2>2, <3>1, <3>2
  <2> QED
    BY <1>5, <2>1, <2>3, <2>4
<1>7. CASE ToEnd
  <2> DEFINE text == Text(buf.cmd, buf.cursor, buf.l)
  <2>1. buf.cursor < buf.l /\ Moves(buf.l, Echo(Write(term, text)))
    BY <1>7 DEF ToEnd
  <2>2. /\ Len(text) = buf.l - buf.cursor
        /\ \A k \in 1..(buf.l - buf.cursor) : text[k] = buf.cmd[buf.cursor + k - 1]
    <3>1. PICK from \in Nat, to \in Nat : from = buf.cursor /\ to = buf.l
      BY <1>1
    <3>2. from \in Nat /\ to \in Nat /\ from <= to /\ to <= buf.l /\ IsLine(buf) /\ LineBound < MaxLength
      BY <1>1, <3>1
    <3>3. /\ Len(Text(buf.cmd, from, to)) = to - from
          /\ \A k \in 1..(to - from) : Text(buf.cmd, from, to)[k] = buf.cmd[from + k - 1]
      BY <3>2, PartIs
    <3> QED
      BY <3>1, <3>3
  <2> HIDE DEF text
  <2>3. /\ Len(text) \in Nat /\ buf.cursor + Len(text) <= buf.l
        /\ buf.l = buf.cursor + Len(text)
    BY <1>1, <2>2
  <2>4. \A k \in 1..Len(text) : text[k] = buf.cmd[buf.cursor + (k - 1)]
    <3> TAKE k \in 1..Len(text)
    <3>1. k \in 1..(buf.l - buf.cursor) /\ buf.cursor + k - 1 = buf.cursor + (k - 1)
      BY <1>1, <2>2
    <3> QED
      BY <2>2, <3>1
  <2> QED
    BY <1>5, <2>1, <2>3, <2>4
<1>8. CASE ToStart /\ asks = "command"
  <2> DEFINE to == 0
  <2>1. /\ asks' = asks /\ buf' = [buf EXCEPT !.cursor = to]
        /\ term' = [prompt |-> "command", cells |-> term.cells, place |-> to]
    BY <1>8 DEF ToStart, Moves, Echo
  <2> HIDE DEF to
  <2>2. term.cells = CellsOf(buf)
    BY <1>2 DEF Row
  <2>3. term' = Row(asks, CellsOf(buf), to)
    BY <1>8, <2>1, <2>2 DEF Row
  <2> QED
    BY <1>3, <2>1, <2>3
<1> QED
  BY <1>4, <1>6, <1>7, <1>8

(* The row for what is asked next: nothing behind the prompt but a command *)
(* that is typed on after its help.                                        *)
LEMMA NextShows ==
  ASSUME NEW next \in Prompts, NEW e, IsLine(e), next = "name" => e = NoLine,
         asks' = next, buf' = e, term' = Prompted(next, e)
  PROVE  ScreenInv'
<1>1. CASE next = "command"
  <2>1. term' = RowOf("command", e)
    BY <1>1, PromptedShows
  <2> QED
    BY <1>1, <2>1 DEF ScreenInv, Hidden
<1>2. CASE next \in {"name", "password"}
  <2>1. term' = RowOf(next, NoLine)
    BY <1>2, NewRowShows DEF Prompted
  <2> QED
    BY <1>2, <2>1 DEF ScreenInv, Hidden
<1>3. CASE next = "gone"
  BY <1>3 DEF ScreenInv, Editing
<1> QED
  BY <1>1, <1>2, <1>3 DEF Prompts

ReadyToShow ==
  /\ Ready
  /\ "redraws a name" \notin Habits

LEMMA ScreenStep ==
  /\ ReadyToShow
  /\ LineInv /\ HistoryInv /\ ScreenInv /\ [LineNext]_lineVars
  => ScreenInv'
<1> SUFFICES ASSUME ReadyToShow,
                    LineInv, HistoryInv, ScreenInv, [LineNext]_lineVars
             PROVE  ScreenInv'
  OBVIOUS
<1>0. Ready
  BY DEF ReadyToShow
<1>1. ASSUME asks' = asks, term' = term, Hidden \/ buf' = buf PROVE ScreenInv'
  BY <1>1 DEF ScreenInv, Hidden, Editing
<1>2. ASSUME asks' = asks, ~Hidden, term' = RowOf(asks, buf') PROVE ScreenInv'
  BY <1>2 DEF ScreenInv, Hidden
<1>3. IsLine(buf) /\ asks \in Prompts
  BY DEF LineInv
<1>4. Editing /\ ~Hidden => term = RowOf(asks, buf)
  BY DEF ScreenInv
<1>5. asks = "command" => Editing /\ ~Hidden
  BY DEF Editing, Hidden
<1>6. LineBound < MaxLength
  BY <1>0, RoomIsLeft
<1>7. ASSUME NEW n \in 0..buf.cursor, Erase(n) PROVE ScreenInv'
  <2>1. asks' = asks /\ Editing
    BY <1>7 DEF Erase
  <2>2. CASE Hidden
    <3>1. term' = term
      BY <1>7, <2>2 DEF Erase, Echo
    <3> QED
      BY <1>1, <2>1, <2>2, <3>1
  <2>3. CASE ~Hidden
    BY <1>0, <1>2, <1>4, <1>7, <2>1, <2>3, EraseShows
  <2> QED
    BY <2>2, <2>3
<1>8. CASE EraseChar \/ EraseWord
  BY <1>7, <1>8, ErasedAreTyped DEF EraseChar, EraseWord
<1>9. CASE ClearLine
  <2>1. asks' = asks /\ Editing /\ buf' = NoLine
    BY <1>9 DEF ClearLine
  <2>2. CASE Hidden
    <3>1. term' = term
      BY <1>9, <2>2 DEF ClearLine
    <3> QED
      BY <1>1, <2>1, <2>2, <3>1
  <2>3. CASE ~Hidden
    <3>1. term' = Cleared(RowOf(asks, buf), buf)
      BY <1>4, <1>9, <2>1, <2>3 DEF ClearLine
    <3>2. term' = RowOf(asks, buf')
      BY <1>3, <2>1, <3>1, ClearedShows
    <3> QED
      BY <1>2, <2>1, <2>3, <3>2
  <2> QED
    BY <2>2, <2>3
<1>10. CASE KillToEnd
  <2>1. asks' = asks /\ Editing /\ (Hidden => term' = term)
    BY <1>10 DEF KillToEnd, Echo
  <2> QED
    BY <1>0, <1>1, <1>2, <1>4, <1>10, <2>1, KillShows
<1>11. CASE Redraw \/ ListNames
  <2>1. /\ asks' = asks /\ buf' = buf /\ term' = Prompted("command", buf)
        /\ asks = "command"
    BY <1>3, <1>11 DEF Redraw, ListNames, Prompts, Editing, Hidden, ReadyToShow
  <2>2. term' = RowOf(asks, buf')
    BY <1>3, <2>1, PromptedShows
  <2> QED
    BY <1>2, <1>5, <2>1, <2>2
<1>12. CASE LeaveAllModes
  <2>1. /\ asks' = asks /\ asks = "command" /\ term' = Prompted("command", buf')
    BY <1>12 DEF LeaveAllModes
  <2>2. IsLine(buf')
    BY <1>0, LineStep DEF LineInv
  <2>3. term' = RowOf(asks, buf')
    BY <2>1, <2>2, PromptedShows
  <2> QED
    BY <1>2, <1>5, <2>1, <2>3
<1>13. CASE \E name \in Names : Complete(name)
  BY <1>0, <1>2, <1>4, <1>5, <1>13, CompleteKeeps, CompleteShows
<1>14. ASSUME NEW k \in Int, Recall(k) PROVE ScreenInv'
  BY <1>0, <1>2, <1>4, <1>5, <1>14, RecallKeeps, RecallShows
<1>15. Len(history) - 1 \in Int /\ at - 1 \in Int /\ at + 1 \in Int /\ 0 \in Int
  <2>1. at \in Int /\ Len(history) \in Nat
    BY LenProperties DEF HistoryInv
  <2> QED
    BY <2>1
<1>16. CASE Up
  <2> DEFINE k == IF at = 0 THEN Len(history) - 1 ELSE at - 1
  <2>1. k \in Int
    BY <1>15
  <2>2. Recall(k)
    BY <1>16 DEF Up
  <2> HIDE DEF k
  <2> QED
    BY <1>14, <2>1, <2>2
<1>17. CASE Down
  <2> DEFINE k == IF at + 1 >= Len(history) THEN 0 ELSE at + 1
  <2>1. k \in Int
    BY <1>15
  <2>2. Recall(k)
    BY <1>17 DEF Down
  <2> HIDE DEF k
  <2> QED
    BY <1>14, <2>1, <2>2
<1>18. CASE Left \/ Right \/ ToStart \/ ToEnd
  <2>1. Editing /\ ~Hidden
    BY <1>0, <1>18 DEF Left, Right, ToStart, ToEnd, Moves, Ready
  <2>2. ToStart => asks = "command"
    BY <1>3, <2>1 DEF ToStart, Prompts, Editing, Hidden, ReadyToShow
  <2>3. asks' = asks /\ term' = RowOf(asks, buf')
    BY <1>4, <1>6, <1>18, <2>1, <2>2, MoveShows
  <2> QED
    BY <1>2, <2>1, <2>3
<1>19. CASE \E c \in Letters : AppendLetter(c) \/ Insert(c)
  <2> PICK c \in Letters : AppendLetter(c) \/ Insert(c)
    BY <1>19
  <2>1. CASE AppendLetter(c)
    <3>1. asks' = asks /\ Editing /\ (Hidden => term' = term)
      BY <1>0, <2>1, AppendKeeps DEF Echo
    <3> QED
      BY <1>0, <1>1, <1>2, <1>4, <2>1, <3>1, AppendShows
  <2>2. CASE Insert(c)
    BY <1>0, <1>2, <1>4, <2>2, InsertKeeps, InsertShows
  <2> QED
    BY <2>1, <2>2
<1>20. CASE \E next \in Prompts : Enter(next) \/ Help(next)
  <2> PICK next \in Prompts : Enter(next) \/ Help(next)
    BY <1>20
  <2>1. CASE Enter(next)
    BY <1>0, <2>1, EnterKeeps, NoLineIsLine, NextShows
  <2>2. CASE Help(next)
    <3>1. next # "name"
      BY <2>2 DEF Help
    <3> QED
      BY <1>3, <2>2, <3>1, HelpKeeps, NextShows
  <2> QED
    BY <2>1, <2>2
<1>21. CASE EndOfInput
  BY <1>0, <1>21, EndOfInputKeeps, NoLineIsLine, NextShows
<1>22. CASE UNCHANGED lineVars
  BY <1>1, <1>22 DEF lineVars
<1> QED
  BY <1>8, <1>9, <1>10, <1>11, <1>12, <1>13, <1>16, <1>17, <1>18, <1>19, <1>20, <1>21, <1>22
     DEF LineNext, Prompts

(* The row of the terminal is the prompt and the line with its cursor, and *)
(* of a password nothing, after every key and every line, as long as       *)
(* nobody has the line shown again while a name is asked for.              *)
THEOREM ScreenIsTheLine ==
  ASSUME ReadyToShow
  PROVE  LineSpec => []ScreenShowsLine
<1>1. LineInit => ScreenInv
  <2> SUFFICES ASSUME LineInit PROVE ScreenInv
    OBVIOUS
  <2>1. asks = "name" /\ buf = NoLine /\ term = NewRow("name")
    BY DEF LineInit
  <2> QED
    BY <2>1, NewRowShows DEF ScreenInv, Hidden
<1>2. /\ LineInv /\ HistoryInv /\ ScreenInv /\ [LineNext]_lineVars => ScreenInv'
  BY ScreenStep
<1>3. ScreenInv => ScreenShowsLine
  <2>1. ASSUME NEW e, term = RowOf(asks, e)
        PROVE  /\ term.prompt = asks
               /\ term.place = e.cursor
               /\ \A i \in Cells : term.cells[i] = IF i < e.l THEN e.cmd[i] ELSE Space
    BY <2>1 DEF RowOf
  <2> QED
    BY <2>1 DEF ScreenInv, ScreenShowsLine
<1>4. LineSpec => [](LineInv /\ HistoryInv)
  BY LineHolds DEF ReadyToShow
<1> QED
  BY <1>1, <1>2, <1>3, <1>4, PTL DEF LineSpec
=============================================================================
