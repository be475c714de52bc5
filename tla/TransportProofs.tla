-------------------------- MODULE TransportProofs --------------------------
(***************************************************************************)
(* Proofs about Transport, for any number of programs, vaults, connections *)
(* and writes.                                                             *)
(***************************************************************************)
EXTENDS Transport, FiniteSetTheorems, SequenceTheorems, TLAPS

\* p has its vault in memory.
Holds(p) == prog[p].at \notin Reading \cup {"ended"}

\* The port belongs to the one program that is past bind().
PortInv == \A p \in Process : listener = p <=> prog[p].at \in {"seccomp", "loop", "duress"}

\* Two programs with one vault in memory: each is known to overlap or listens, and
\* next to one that is making its vault every other one overlaps.  A program that
\* does not overlap has what is on disk.
VaultInv ==
  /\ \A p, q \in Process :
       p # q /\ home[p] = home[q] /\ Holds(p) /\ Holds(q) =>
         /\ p \in overlap \/ listener = p
         /\ prog[q].at = "keys" => p \in overlap
  /\ \A p \in Process \ overlap : Holds(p) => prog[p].base = file[home[p]]

\* The terminal of a program that runs: raw only from setup_terminal on, without
\* echo only at a prompt.
TerminalInv ==
  \A p \in Process :
    /\ prog[p].at \in Reading \cup {"keys", "terminal"} => prog[p].terminal = "normal"
    /\ Holds(p) => prog[p].echo
    /\ prog[p].at = "ended" /\ prog[p].clean => prog[p].terminal = "normal" /\ prog[p].echo

\* A hidden service outlives no program.
OnionInv == \A o \in onions : prog[o.by].at # "ended"

TransportInv == TypeOK /\ PortInv /\ VaultInv /\ TerminalInv /\ OnionInv

-----------------------------------------------------------------------------
(* Types.                                                                  *)

\* A program that starts afresh or ends is a program.
LEMMA ProgramTypes ==
  /\ NewProgram \in Program
  /\ \A r \in Program : Ended(r) \in Program /\ Ended(r).at = "ended"
                        /\ Ended(r).clean = r.clean /\ Ended(r).echo = r.echo
                        /\ Ended(r).terminal = r.terminal
  /\ \A r \in Program : Restore(r) \in Program /\ Restore(r).terminal = "normal"
                        /\ Restore(r).echo = r.echo /\ Restore(r).clean = r.clean
<1>1. NewProgram \in Program
  BY TransportConstants DEF NewProgram, Program, Steps, Reading, Running
<1>2. \A r \in Program : /\ Ended(r) \in Program /\ Ended(r).at = "ended"
                         /\ Ended(r).clean = r.clean /\ Ended(r).echo = r.echo
                         /\ Ended(r).terminal = r.terminal
  <2> SUFFICES ASSUME NEW r \in Program
               PROVE  /\ Ended(r) \in Program /\ Ended(r).at = "ended"
                      /\ Ended(r).clean = r.clean /\ Ended(r).echo = r.echo
                      /\ Ended(r).terminal = r.terminal
    OBVIOUS
  <2>1. /\ r.echo \in BOOLEAN /\ r.clean \in BOOLEAN
        /\ r.terminal \in {"normal", "raw", "alternate"}
    BY DEF Program
  <2>2. Ended(r) \in Program
    BY <1>1, <2>1 DEF Program, Ended
  <2>3. NewProgram.at = "ended"
    BY DEF NewProgram
  <2> QED BY <1>1, <2>1, <2>2, <2>3 DEF Program, Ended
<1>3. \A r \in Program : /\ Restore(r) \in Program /\ Restore(r).terminal = "normal"
                         /\ Restore(r).echo = r.echo /\ Restore(r).clean = r.clean
  BY DEF Program, Restore
<1> QED BY <1>1, <1>2, <1>3

\* A write counts one, up to the bound.
LEMMA Written ==
  ASSUME TypeOK, NEW p \in Process, Write(p)
  PROVE  /\ file' \in [Vault -> 0..MaxWrites] /\ home[p] \in Vault
         /\ file'[home[p]] \in 0..MaxWrites
         /\ \A v \in Vault : v # home[p] => file'[v] = file[v]
<1>1. home[p] \in Vault /\ file[home[p]] \in 0..MaxWrites
  BY DEF TypeOK
<1>2. file[home[p]] + 1 \in 0..MaxWrites
  BY <1>1, TransportConstants DEF Write
<1> QED BY <1>1, <1>2 DEF Write, TypeOK

\* A step of a program changes no other program.
LEMMA ProgramStep ==
  ASSUME TypeOK, NEW p \in Process, ProcessStep(p)
  PROVE  /\ prog' \in [Process -> Program]
         /\ \A q \in Process \ {p} : prog'[q] = prog[q]
<1> DEFINE Goal == prog' \in [Process -> Program] /\ \A q \in Process \ {p} : prog'[q] = prog[q]
<1>0. prog \in [Process -> Program] /\ prog[p] \in Program
  BY DEF TypeOK
<1>1. ASSUME NEW r \in Program, prog' = [prog EXCEPT ![p] = r] PROVE Goal
  BY <1>0, <1>1
<1>2. ASSUME Start(p) PROVE Goal
  <2> DEFINE r == [NewProgram EXCEPT
                     !.at = IF file[home[p]] > 0 THEN "unlock" ELSE "setup", !.echo = FALSE]
  <2>1. PICK a \in {"unlock", "setup"} : r = [NewProgram EXCEPT !.at = a, !.echo = FALSE]
    OBVIOUS
  <2>2. prog' = [prog EXCEPT ![p] = r]
    BY <1>2 DEF Start
  <2>3. a \in Steps /\ NewProgram \in Program
    BY ProgramTypes DEF Steps, Reading
  <2> HIDE DEF r, Goal
  <2>4. r \in Program
    BY <2>1, <2>3 DEF Program
  <2> QED BY <1>1, <2>2, <2>4
<1>3. ASSUME Unlock(p) PROVE Goal
  <2>1. PICK d \in BOOLEAN :
          prog' = [prog EXCEPT ![p] = [@ EXCEPT !.at = "terminal", !.duress = d, !.echo = TRUE,
                                                !.base = file[home[p]]]]
    BY <1>3 DEF Unlock
  <2>2. file[home[p]] \in 0..MaxWrites
    BY DEF TypeOK
  <2> DEFINE r == [prog[p] EXCEPT !.at = "terminal", !.duress = d, !.echo = TRUE,
                                  !.base = file[home[p]]]
  <2>3. r \in Program
    BY <1>0, <2>2 DEF Program, Steps
  <2> QED BY <1>0, <1>1, <2>1, <2>3
<1>4. ASSUME WrongPassphrase(p) PROVE Goal
  <2> DEFINE r == [prog[p] EXCEPT !.attempt = prog[p].attempt + 1, !.echo = FALSE]
  <2>1. prog[p].attempt + 1 \in 1..3
    BY <1>0, <1>4 DEF WrongPassphrase, Program
  <2>2. r \in Program
    BY <1>0, <2>1 DEF Program
  <2>3. prog' = [prog EXCEPT ![p] = r]
    BY <1>0, <1>4 DEF WrongPassphrase
  <2> QED BY <1>1, <2>2, <2>3
<1>5. ASSUME Refused(p) PROVE Goal
  <2> DEFINE r == [prog[p] EXCEPT !.echo = TRUE]
  <2>1. r \in Program
    BY <1>0 DEF Program
  <2> QED BY <1>0, <1>1, <1>5, <2>1, ProgramTypes DEF Refused
<1>6. ASSUME Create(p) PROVE Goal
  <2> DEFINE r == [prog[p] EXCEPT !.at = "keys", !.echo = TRUE, !.base = file'[home[p]]]
  <2>1. r \in Program
    BY <1>0, <1>6, Written DEF Create, Program, Steps
  <2> QED BY <1>0, <1>1, <1>6, <2>1 DEF Create
<1>7. ASSUME CreateKeys(p) PROVE Goal
  <2> DEFINE r == [prog[p] EXCEPT !.at = "terminal", !.base = file'[home[p]]]
  <2>1. r \in Program
    BY <1>0, <1>7, Written DEF CreateKeys, Program, Steps
  <2> QED BY <1>0, <1>1, <1>7, <2>1 DEF CreateKeys
<1>8. ASSUME SetupTerminal(p) PROVE Goal
  <2> DEFINE r == [prog[p] EXCEPT !.at = "tor", !.terminal = "alternate"]
  <2>1. r \in Program
    BY <1>0 DEF Program, Steps
  <2> QED BY <1>0, <1>1, <1>8, <2>1 DEF SetupTerminal
<1>9. ASSUME SetupTerminalFails(p) PROVE Goal
  <2>1. PICK t \in {"normal", "raw", "alternate"} :
          prog' = [prog EXCEPT ![p] = Ended([@ EXCEPT !.terminal = t, !.clean = (t = "normal")])]
    BY <1>9 DEF SetupTerminalFails
  <2> DEFINE r == [prog[p] EXCEPT !.terminal = t, !.clean = (t = "normal")]
  <2>2. r \in Program
    BY <1>0 DEF Program
  <2> QED BY <1>0, <1>1, <2>1, <2>2, ProgramTypes
<1>10. ASSUME NEW s \in Steps, Go(p, s) PROVE Goal
  <2> DEFINE r == [prog[p] EXCEPT !.at = s]
  <2>1. r \in Program
    BY <1>0 DEF Program
  <2> QED BY <1>0, <1>1, <1>10, <2>1 DEF Go
<1>11. ASSUME Authenticate(p) \/ AddOnion(p) \/ Bind(p) \/ EnterLoop(p) PROVE Goal
  BY <1>10, <1>11 DEF Authenticate, AddOnion, Bind, EnterLoop, Steps, Running
<1>12. ASSUME InitFails(p) \/ QuitLoop(p) \/ RunFails(p) PROVE Goal
  BY <1>0, <1>1, <1>12, ProgramTypes DEF InitFails, QuitLoop, RunFails
<1>13. ASSUME SaveInLoop(p) PROVE Goal
  <2> DEFINE r == [prog[p] EXCEPT !.base = file'[home[p]]]
  <2>1. r \in Program
    BY <1>0, <1>13, Written DEF SaveInLoop, Program
  <2> QED BY <1>0, <1>1, <1>13, <2>1 DEF SaveInLoop
<1>14. ASSUME Die(p) PROVE Goal
  <2> DEFINE r == [prog[p] EXCEPT !.clean = FALSE]
  <2>1. r \in Program
    BY <1>0 DEF Program
  <2> QED BY <1>0, <1>1, <1>14, <2>1, ProgramTypes DEF Die
<1>15. ASSUME SignalNewnym(p) PROVE Goal
  <2> DEFINE r == [prog[p] EXCEPT !.newnym = @ + 1]
  <2>1. r \in Program
    BY <1>0, <1>15, TransportConstants DEF SignalNewnym, Program
  <2> QED BY <1>0, <1>1, <1>15, <2>1 DEF SignalNewnym
<1>16. ASSUME ControlLoop(p) PROVE Goal
  <2> DEFINE r == [prog[p] EXCEPT !.newnym = @ - 1]
  <2>1. r \in Program
    BY <1>0, <1>16, TransportConstants DEF ControlLoop, Program
  <2> QED BY <1>0, <1>1, <1>16, <2>1 DEF ControlLoop
<1> HIDE DEF Goal
<1>17. Goal
  BY <1>2, <1>3, <1>4, <1>5, <1>6, <1>7, <1>8, <1>9, <1>11, <1>12, <1>13, <1>14, <1>15, <1>16
     DEF ProcessStep
<1> QED BY <1>17 DEF Goal

\* Connections that let go of their permits leave the limit kept.
LEMMA HeldShrinks ==
  ASSUME TypeOK, Held' \subseteq Held
  PROVE  Cardinality(Held') <= MaxInbound
<1>1. IsFiniteSet(Held)
  BY TransportConstants, FS_Subset DEF Held
<1>2. /\ IsFiniteSet(Held') /\ Cardinality(Held') <= Cardinality(Held)
  BY <1>1, FS_Subset
<1>3. Cardinality(Held) \in Nat /\ Cardinality(Held') \in Nat
  BY <1>1, <1>2, FS_CardinalityType
<1> QED BY <1>2, <1>3, TransportConstants DEF TypeOK

\* Ending a program keeps the types of what it shared, and frees the port.
LEMMA Released ==
  ASSUME TypeOK, NEW p \in Process, Release(p)
  PROVE  /\ onions' = {o \in onions : o.by # p} /\ overlap' = overlap \ {p}
         /\ listener' = (IF listener = p THEN NoProcess ELSE listener)
         /\ conn' \in [Conn -> Connection] /\ Held' \subseteq Held /\ queue' \in Seq(Conn)
<1>1. onions' = {o \in onions : o.by # p} /\ overlap' = overlap \ {p}
  BY DEF Release, OnionsWithout
<1>2. CASE listener = p
  <2>1. listener' = NoProcess /\ queue' = <<>>
    BY <1>2 DEF Release
  <2>2. conn' = [c \in Conn |-> IF conn[c].st \in {"open", "complete", "queued"}
                               THEN [conn[c] EXCEPT !.st = "lost"] ELSE conn[c]]
    BY <1>2 DEF Release
  <2>3. ASSUME NEW c \in Conn
        PROVE  conn'[c] \in Connection /\ conn'[c].st \notin {"open", "complete"}
    <3>1. conn[c] \in Connection
      BY DEF TypeOK
    <3> QED BY <2>2, <3>1 DEF Connection
  <2>4. conn' \in [Conn -> Connection]
    BY <2>2, <2>3
  <2>5. Held' \subseteq Held
    BY <2>3 DEF Held
  <2> QED BY <1>1, <1>2, <2>1, <2>4, <2>5
<1>3. CASE listener # p
  <2>1. UNCHANGED <<listener, queue, conn>>
    BY <1>3 DEF Release
  <2>2. Held' = Held
    BY <2>1 DEF Held
  <2> QED BY <1>1, <1>3, <2>1, <2>2 DEF TypeOK
<1> QED BY <1>2, <1>3

\* Every step keeps the types, and the limit on inbound connections.
LEMMA TypeStep == TypeOK /\ [Next]_vars => TypeOK'
<1> SUFFICES ASSUME TypeOK, [Next]_vars PROVE TypeOK'
  OBVIOUS
<1>1. CASE UNCHANGED vars
  BY <1>1 DEF vars, TypeOK, Held
<1>2. ASSUME NEW p \in Process, ProcessStep(p) PROVE TypeOK'
  <2>1. prog' \in [Process -> Program] /\ home' = home
    BY <1>2, ProgramStep DEF ProcessStep, Start, Unlock, WrongPassphrase, Refused, Create,
       CreateKeys, SetupTerminal, SetupTerminalFails, Authenticate, AddOnion, Bind, EnterLoop,
       InitFails, SaveInLoop, QuitLoop, RunFails, Die, SignalNewnym, ControlLoop
  <2>2. UNCHANGED file \/ Write(p)
    BY <1>2 DEF ProcessStep, Start, Unlock, WrongPassphrase, Refused, Create,
       CreateKeys, SetupTerminal, SetupTerminalFails, Authenticate, AddOnion, Bind, EnterLoop,
       InitFails, SaveInLoop, QuitLoop, RunFails, Die, SignalNewnym, ControlLoop
  <2>3. file' \in [Vault -> 0..MaxWrites]
    BY <2>2, Written DEF TypeOK
  <2>4. starts' \in 0..MaxStarts
    <3>1. CASE Start(p)
      BY <3>1, TransportConstants DEF Start, TypeOK
    <3>2. CASE UNCHANGED starts
      BY <3>2 DEF TypeOK
    <3> QED
      BY <1>2, <3>1, <3>2 DEF ProcessStep, Unlock, WrongPassphrase, Refused, Create,
         CreateKeys, SetupTerminal, SetupTerminalFails, Authenticate, AddOnion, Bind, EnterLoop,
         InitFails, SaveInLoop, QuitLoop, RunFails, Die, SignalNewnym, ControlLoop
  <2>5. CASE Release(p)
    <3>1. /\ onions' \subseteq onions /\ listener' \in Process \cup {NoProcess}
          /\ conn' \in [Conn -> Connection] /\ queue' \in Seq(Conn)
      BY <2>5, Released DEF TypeOK
    <3>2. Cardinality(Held') <= MaxInbound
      BY <2>5, Released, HeldShrinks
    <3> QED BY <2>1, <2>3, <2>4, <3>1, <3>2 DEF TypeOK
  <2>6. CASE UNCHANGED <<conn, queue>> /\ onions' \subseteq Onion
             /\ listener' \in Process \cup {NoProcess}
    BY <2>1, <2>3, <2>4, <2>6 DEF TypeOK, Held
  <2>7. CASE AddOnion(p)
    <3>1. [key |-> ServiceKey(p), by |-> p] \in Onion
      BY DEF Onion, ServiceKey, TypeOK
    <3> QED BY <2>6, <2>7, <3>1 DEF AddOnion, TypeOK
  <2>8. CASE Bind(p)
    BY <2>6, <2>8 DEF Bind, TypeOK
  <2>9. CASE UNCHANGED shared
    BY <2>6, <2>9 DEF shared, TypeOK
  <2> QED
    BY <1>2, <2>5, <2>7, <2>8, <2>9, ZenonT(60) DEF ProcessStep, Start, Unlock, WrongPassphrase, Refused,
       Create, CreateKeys, SetupTerminal, SetupTerminalFails, Authenticate, EnterLoop,
       InitFails, SaveInLoop, QuitLoop, RunFails, Die, SignalNewnym, ControlLoop
<1>3. CASE TorRestart
  BY <1>3 DEF TorRestart, TypeOK, Held
<1>4. ASSUME UNCHANGED <<prog, home, file, onions, listener, starts>>,
             conn' \in [Conn -> Connection], queue' \in Seq(Conn), Held' \subseteq Held
      PROVE  TypeOK'
  BY <1>4, HeldShrinks DEF TypeOK
<1>5. ASSUME NEW c \in Conn, Accept(c) PROVE TypeOK'
  <2> DEFINE new == [st |-> IF Permit THEN "open" ELSE "lost", at |-> listener]
  <2>1. new \in Connection
    BY DEF Connection, TypeOK
  <2>2. conn' = [conn EXCEPT ![c] = new]
    BY <1>5 DEF Accept
  <2>3. conn' \in [Conn -> Connection] /\ queue' \in Seq(Conn)
    BY <1>5, <2>1, <2>2 DEF Accept, TypeOK
  <2>4. Cardinality(Held') <= MaxInbound
    <3>1. IsFiniteSet(Held)
      BY TransportConstants, FS_Subset DEF Held
    <3>2. CASE Permit
      <4>1. Held' \subseteq Held \cup {c}
        BY <2>2 DEF Held, TypeOK
      <4>2. /\ IsFiniteSet(Held \cup {c}) /\ Cardinality(Held) \in Nat
            /\ Cardinality(Held \cup {c}) <= Cardinality(Held) + 1
        BY <3>1, FS_AddElement, FS_CardinalityType
      <4>3. IsFiniteSet(Held') /\ Cardinality(Held') <= Cardinality(Held \cup {c})
        BY <4>1, <4>2, FS_Subset
      <4>4. Cardinality(Held') \in Nat /\ Cardinality(Held \cup {c}) \in Nat
        BY <4>2, <4>3, FS_CardinalityType
      <4> QED BY <3>2, <4>2, <4>3, <4>4, TransportConstants DEF Permit
    <3>3. CASE ~Permit
      <4>1. Held' \subseteq Held
        BY <2>2, <3>3 DEF Held, TypeOK
      <4> QED BY <4>1, HeldShrinks
    <3> QED BY <3>2, <3>3
  <2> QED BY <1>5, <2>3, <2>4 DEF Accept, TypeOK
<1>6. ASSUME NEW c \in Conn, NEW s \in {"complete", "lost", "queued", "handled"},
             conn' = [conn EXCEPT ![c].st = s], s = "complete" => conn[c].st = "open"
      PROVE  conn' \in [Conn -> Connection] /\ Held' \subseteq Held
  <2>1. conn \in [Conn -> Connection] /\ conn[c] \in Connection
    BY DEF TypeOK
  <2>2. [conn[c] EXCEPT !.st = s] \in Connection
    BY <2>1 DEF Connection
  <2>3. conn' = [conn EXCEPT ![c] = [conn[c] EXCEPT !.st = s]]
    BY <1>6, <2>1
  <2>4. conn' \in [Conn -> Connection]
    BY <2>1, <2>2, <2>3
  <2>5. [conn[c] EXCEPT !.st = s].st = s
    BY <2>1 DEF Connection
  <2>6. Held' \subseteq Held
    BY <1>6, <2>1, <2>3, <2>5 DEF Held
  <2> QED BY <2>4, <2>6
<1>7. ASSUME NEW c \in Conn, FrameArrives(c) \/ FrameFails(c) PROVE TypeOK'
  BY <1>4, <1>6, <1>7 DEF FrameArrives, FrameFails, TypeOK
<1>8. ASSUME NEW c \in Conn, ReadFrame(c) PROVE TypeOK'
  <2>1. queue' \in Seq(Conn)
    BY <1>8, AppendProperties DEF ReadFrame, TypeOK
  <2> QED BY <1>4, <1>6, <1>8, <2>1 DEF ReadFrame
<1>9. CASE HandleFrame
  <2>1. queue \in Seq(Conn) /\ Head(queue) \in Conn /\ queue' \in Seq(Conn)
    BY <1>9, HeadTailProperties DEF HandleFrame, QueueAfter, TypeOK
  <2> QED BY <1>4, <1>6, <1>9, <2>1 DEF HandleFrame
<1> QED BY <1>1, <1>2, <1>3, <1>5, <1>7, <1>8, <1>9 DEF Next, Network

-----------------------------------------------------------------------------
(* The port, the vaults, the terminals and the services.                   *)

\* The ways a program ends.
Ends(p) ==
  \/ Refused(p) \/ SetupTerminalFails(p) \/ InitFails(p)
  \/ QuitLoop(p) \/ RunFails(p) \/ Die(p)

\* A program that ends gives back what it shared; only the last save of run()
\* writes the vault then.
LEMMA EndOf ==
  ASSUME TypeOK, NEW p \in Process, Ends(p)
  PROVE  /\ prog'[p].at = "ended" /\ home' = home /\ Release(p)
         /\ file' = file \/ (prog[p].at = "loop" /\ Write(p))
<1>1. prog[p] \in Program /\ prog \in [Process -> Program]
  BY DEF TypeOK
<1>2. \A r \in Program : Ended(r).at = "ended"
  BY ProgramTypes
<1>3. CASE Refused(p)
  <2>1. [prog[p] EXCEPT !.echo = TRUE] \in Program
    BY <1>1 DEF Program
  <2> QED BY <1>1, <1>2, <1>3, <2>1 DEF Refused
<1>4. CASE SetupTerminalFails(p)
  <2>1. \A t \in {"normal", "raw", "alternate"} :
          [prog[p] EXCEPT !.terminal = t, !.clean = (t = "normal")] \in Program
    BY <1>1 DEF Program
  <2>2. PICK t \in {"normal", "raw", "alternate"} :
          prog' = [prog EXCEPT ![p] = Ended([@ EXCEPT !.terminal = t, !.clean = (t = "normal")])]
    BY <1>4 DEF SetupTerminalFails
  <2>3. prog'[p].at = "ended"
    BY <1>1, <1>2, <2>1, <2>2
  <2> QED BY <1>4, <2>3 DEF SetupTerminalFails
<1>5. CASE InitFails(p) \/ QuitLoop(p) \/ RunFails(p)
  BY <1>1, <1>2, <1>5, ProgramTypes DEF InitFails, QuitLoop, RunFails
<1>6. CASE Die(p)
  <2>1. [prog[p] EXCEPT !.clean = FALSE] \in Program
    BY <1>1 DEF Program
  <2> QED BY <1>1, <1>2, <1>6, <2>1 DEF Die
<1> QED BY <1>3, <1>4, <1>5, <1>6 DEF Ends

\* The port stays with the program that is past bind().
LEMMA PortStep == TransportInv /\ [Next]_vars => PortInv'
<1> SUFFICES ASSUME TransportInv, [Next]_vars PROVE PortInv'
  OBVIOUS
<1>0. TypeOK /\ PortInv
  BY DEF TransportInv
<1>1. CASE UNCHANGED <<prog, listener>>
  BY <1>0, <1>1 DEF PortInv
<1>2. ASSUME NEW p \in Process, ProcessStep(p) PROVE PortInv'
  <2>1. /\ \A q \in Process \ {p} : prog'[q] = prog[q]
        /\ prog[p] \in Program /\ prog \in [Process -> Program]
    BY <1>0, <1>2, ProgramStep DEF TypeOK
  <2>2. CASE Ends(p)
    <3>1. prog'[p].at = "ended" /\ Release(p)
      BY <1>0, <2>2, EndOf
    <3>2. listener' = IF listener = p THEN NoProcess ELSE listener
      BY <1>0, <3>1, Released
    <3> QED BY <1>0, <2>1, <3>1, <3>2, TransportConstants DEF PortInv
  <2>3. CASE Bind(p)
    <3>1. prog'[p].at = "seccomp" /\ listener' = p /\ listener = NoProcess
      BY <2>1, <2>3 DEF Bind, Go, PortFree
    <3> QED BY <1>0, <2>1, <3>1, TransportConstants DEF PortInv
  <2>4. ASSUME listener' = listener,
               {prog[p].at, prog'[p].at} \subseteq {"seccomp", "loop", "duress"}
                 \/ {prog[p].at, prog'[p].at} \cap {"seccomp", "loop", "duress"} = {}
        PROVE  PortInv'
    BY <1>0, <2>1, <2>4 DEF PortInv
  <2>5. CASE EnterLoop(p) \/ SaveInLoop(p) \/ SignalNewnym(p) \/ ControlLoop(p)
    <3>1. /\ listener' = listener /\ prog[p].at \in {"seccomp", "loop", "duress"}
          /\ prog'[p].at \in {"seccomp", "loop", "duress"}
      <4>1. CASE EnterLoop(p)
        BY <2>1, <4>1 DEF EnterLoop, Go, shared
      <4>2. CASE SaveInLoop(p)
        BY <2>1, <4>2 DEF SaveInLoop, shared
      <4>3. CASE SignalNewnym(p)
        BY <2>1, <4>3 DEF SignalNewnym, shared
      <4>4. CASE ControlLoop(p)
        BY <2>1, <4>4 DEF ControlLoop, shared
      <4> QED BY <2>5, <4>1, <4>2, <4>3, <4>4
    <3> QED BY <2>4, <3>1
  <2>6. CASE Start(p)
    <3>1. prog'[p].at \in {"unlock", "setup"} /\ prog[p].at = "ended" /\ listener' = listener
      BY <2>1, <2>6 DEF Start, NewProgram, shared
    <3> QED BY <2>4, <3>1
  <2>7. CASE \/ Unlock(p) \/ WrongPassphrase(p) \/ Create(p) \/ CreateKeys(p) \/ SetupTerminal(p)
             \/ Authenticate(p) \/ AddOnion(p)
    <3>1. /\ listener' = listener /\ prog[p].at \notin {"seccomp", "loop", "duress"}
          /\ prog'[p].at \notin {"seccomp", "loop", "duress"}
      <4>1. CASE Unlock(p)
        BY <2>1, <4>1 DEF Unlock, shared
      <4>2. CASE WrongPassphrase(p)
        BY <2>1, <4>2 DEF WrongPassphrase, shared
      <4>3. CASE Create(p)
        BY <2>1, <4>3 DEF Create, shared
      <4>4. CASE CreateKeys(p)
        BY <2>1, <4>4 DEF CreateKeys, shared
      <4>5. CASE SetupTerminal(p)
        BY <2>1, <4>5 DEF SetupTerminal, shared
      <4>6. CASE Authenticate(p)
        BY <2>1, <4>6 DEF Authenticate, Go, shared
      <4>7. CASE AddOnion(p)
        BY <2>1, <4>7 DEF AddOnion, Go, shared
      <4> QED BY <2>7, <4>1, <4>2, <4>3, <4>4, <4>5, <4>6, <4>7
    <3> QED BY <2>4, <3>1
  <2> QED BY <1>2, <2>2, <2>3, <2>5, <2>6, <2>7 DEF ProcessStep, Ends
<1> QED
  BY <1>1, <1>2 DEF Next, TorRestart, Network, Accept, FrameArrives, FrameFails, ReadFrame,
                    HandleFrame, vars

\* Whoever writes a vault that another program has in memory, overlaps with it.
LEMMA VaultStep == TransportInv /\ [Next]_vars => VaultInv'
<1> SUFFICES ASSUME TransportInv, [Next]_vars PROVE VaultInv'
  OBVIOUS
<1>0. TypeOK /\ PortInv /\ VaultInv
  BY DEF TransportInv
<1>1. CASE UNCHANGED <<prog, home, file, overlap, listener>>
  BY <1>0, <1>1 DEF VaultInv, Holds
<1>2. ASSUME NEW p \in Process, ProcessStep(p) PROVE VaultInv'
  <2>1. /\ \A q \in Process \ {p} : prog'[q] = prog[q] /\ Holds(q)' = Holds(q)
        /\ prog[p] \in Program /\ prog \in [Process -> Program]
        /\ home \in [Process -> Vault]
    BY <1>0, <1>2, ProgramStep DEF TypeOK, Holds
  <2>2. \A q \in Process \ {p} : home[q] # home[p] => file'[home[q]] = file[home[q]]
    <3>1. file' = file \/ Write(p)
      BY <1>2 DEF ProcessStep, Start, Unlock, WrongPassphrase, Refused, Create,
         CreateKeys, SetupTerminal, SetupTerminalFails, Authenticate, AddOnion, Bind, EnterLoop,
         InitFails, SaveInLoop, QuitLoop, RunFails, Die, SignalNewnym, ControlLoop
    <3> QED BY <1>0, <2>1, <3>1, Written
  \* A program in the loop is the only one of its vault that does not overlap.
  <2>3. ASSUME prog[p].at = "loop", NEW q \in Process \ {p}, q \notin overlap, Holds(q)
        PROVE  home[q] # home[p]
    <3>1. listener = p /\ Holds(p)
      BY <1>0, <2>3 DEF PortInv, Holds, Reading
    <3> QED BY <1>0, <2>3, <3>1 DEF VaultInv
  <2>4. CASE Ends(p)
    <3>1. /\ prog'[p].at = "ended" /\ home' = home /\ overlap' = overlap \ {p}
          /\ listener' = (IF listener = p THEN NoProcess ELSE listener)
          /\ file' = file \/ prog[p].at = "loop"
      BY <1>0, <2>4, EndOf, Released
    <3>2. ~Holds(p)'
      BY <3>1 DEF Holds
    <3>3. \A q \in Process \ {p} : q \notin overlap /\ Holds(q) => file'[home[q]] = file[home[q]]
      BY <2>2, <2>3, <3>1
    <3> QED BY <1>0, <2>1, <3>1, <3>2, <3>3 DEF VaultInv
  <2>5. CASE Unlock(p)
    <3>1. /\ prog'[p].at = "terminal" /\ prog'[p].base = file[home[p]] /\ UNCHANGED <<home, file, listener>>
          /\ Holders(p) # {} => overlap' = overlap \cup Starting(p) \cup {p}
          /\ overlap \subseteq overlap'
      BY <2>1, <2>5 DEF Unlock, shared
    <3>2. \A q \in Process \ {p} : home[q] = home[p] /\ Holds(q) =>
            p \in overlap' /\ (q \in overlap' \/ listener = q)
      BY <3>1 DEF Holders, Starting, Holds
    <3>3. \A q \in Process \ {p} : home[q] = home[p] /\ prog[q].at = "keys" => p \in overlap'
      BY <3>2 DEF Holds, Reading
    <3> QED BY <1>0, <2>1, <3>1, <3>2, <3>3 DEF VaultInv
  <2>6. CASE Create(p)
    <3>1. /\ prog'[p].at = "keys" /\ prog'[p].base = file'[home[p]] /\ UNCHANGED <<home, listener>>
          /\ Holders(p) # {} => overlap' = overlap \cup Holders(p) \cup {p}
          /\ overlap \subseteq overlap'
      BY <2>1, <2>6 DEF Create, shared
    <3>2. \A q \in Process \ {p} : home[q] = home[p] /\ Holds(q) => p \in overlap' /\ q \in overlap'
      BY <3>1 DEF Holders, Holds
    <3> QED BY <1>0, <2>1, <2>2, <3>1, <3>2 DEF VaultInv
  <2>7. CASE CreateKeys(p)
    <3>1. /\ prog'[p].at = "terminal" /\ prog'[p].base = file'[home[p]]
          /\ UNCHANGED <<home, listener, overlap>> /\ prog[p].at = "keys"
      BY <2>1, <2>7 DEF CreateKeys, shared
    <3>2. Holds(p) /\ \A q \in Process \ {p} : home[q] = home[p] /\ Holds(q) => q \in overlap
      BY <1>0, <3>1 DEF VaultInv, Holds, Reading
    <3> QED BY <1>0, <2>1, <2>2, <3>1, <3>2 DEF VaultInv
  <2>8. CASE SaveInLoop(p)
    <3>1. /\ prog'[p].at = "loop" /\ prog'[p].base = file'[home[p]]
          /\ UNCHANGED <<home, listener, overlap>> /\ prog[p].at = "loop"
      BY <2>1, <2>8 DEF SaveInLoop, shared
    <3>2. Holds(p)
      BY <3>1 DEF Holds, Reading
    <3> QED BY <1>0, <2>1, <2>2, <2>3, <3>1, <3>2 DEF VaultInv
  <2>9. CASE Start(p) \/ WrongPassphrase(p)
    <3>1. /\ prog'[p].at \in Reading /\ UNCHANGED <<home, file, listener, overlap>>
      <4>1. CASE Start(p)
        BY <2>1, <4>1 DEF Start, NewProgram, Reading, shared
      <4>2. CASE WrongPassphrase(p)
        BY <2>1, <4>2 DEF WrongPassphrase, Reading, shared
      <4> QED BY <2>9, <4>1, <4>2
    <3>2. ~Holds(p)'
      BY <3>1 DEF Holds
    <3> QED BY <1>0, <2>1, <3>1, <3>2 DEF VaultInv
  <2>10. CASE \/ SetupTerminal(p) \/ Authenticate(p) \/ AddOnion(p) \/ EnterLoop(p)
              \/ SignalNewnym(p) \/ ControlLoop(p) \/ Bind(p)
    <3>1. /\ prog'[p].base = prog[p].base /\ prog'[p].at # "keys" /\ Holds(p)
          /\ UNCHANGED <<home, file, overlap>>
          /\ listener' = listener \/ (listener = NoProcess /\ listener' = p)
      <4>1. CASE SetupTerminal(p)
        BY <2>1, <4>1 DEF SetupTerminal, Holds, Reading, shared
      <4>2. CASE Authenticate(p)
        BY <2>1, <4>2 DEF Authenticate, Go, Holds, Reading, shared
      <4>3. CASE AddOnion(p)
        BY <2>1, <4>3 DEF AddOnion, Go, Holds, Reading, shared
      <4>4. CASE EnterLoop(p)
        BY <2>1, <4>4 DEF EnterLoop, Go, Holds, Reading, shared
      <4>5. CASE SignalNewnym(p)
        BY <2>1, <4>5 DEF SignalNewnym, Holds, Reading, shared
      <4>6. CASE ControlLoop(p)
        BY <2>1, <4>6 DEF ControlLoop, Holds, Reading, shared
      <4>7. CASE Bind(p)
        BY <2>1, <4>7 DEF Bind, Go, PortFree, Holds, Reading, shared
      <4> QED BY <2>10, <4>1, <4>2, <4>3, <4>4, <4>5, <4>6, <4>7
    <3> QED BY <1>0, <2>1, <3>1, TransportConstants DEF VaultInv
  <2> QED BY <1>2, <2>4, <2>5, <2>6, <2>7, <2>8, <2>9, <2>10 DEF ProcessStep, Ends
<1> QED
  BY <1>1, <1>2 DEF Next, TorRestart, Network, Accept, FrameArrives, FrameFails, ReadFrame,
                    HandleFrame, vars

\* A program that ends by itself past setup_terminal restores the terminal, and
\* the echo comes back with the end of every prompt.
LEMMA TerminalStep == TransportInv /\ [Next]_vars => TerminalInv'
<1> SUFFICES ASSUME TransportInv, [Next]_vars PROVE TerminalInv'
  OBVIOUS
<1>0. TypeOK /\ TerminalInv
  BY DEF TransportInv
<1>1. CASE UNCHANGED prog
  BY <1>0, <1>1 DEF TerminalInv, Holds
<1>2. ASSUME NEW p \in Process, ProcessStep(p) PROVE TerminalInv'
  <2> DEFINE Fine(r) ==
        /\ r.at \in Reading \cup {"keys", "terminal"} => r.terminal = "normal"
        /\ r.at \notin Reading \cup {"ended"} => r.echo
        /\ r.at = "ended" /\ r.clean => r.terminal = "normal" /\ r.echo
  <2>1. /\ \A q \in Process \ {p} : prog'[q] = prog[q]
        /\ prog[p] \in Program /\ prog \in [Process -> Program]
    BY <1>0, <1>2, ProgramStep DEF TypeOK
  <2>2. \A q \in Process : Fine(prog[q])
    BY <1>0 DEF TerminalInv, Holds
  <2>3. ASSUME Fine(prog'[p]) PROVE TerminalInv'
    BY <2>1, <2>2, <2>3 DEF TerminalInv, Holds
  <2>4. ASSUME NEW r \in Program, prog' = [prog EXCEPT ![p] = Ended(r)],
               r.clean => r.terminal = "normal" /\ r.echo
        PROVE  TerminalInv'
    <3>1. prog'[p] = Ended(r)
      BY <2>1, <2>4
    <3> QED BY <2>3, <2>4, <3>1, ProgramTypes DEF Reading
  <2>5. CASE Refused(p)
    <3> DEFINE r == [prog[p] EXCEPT !.echo = TRUE]
    <3>1. r \in Program /\ r.echo /\ r.terminal = prog[p].terminal
      BY <2>1 DEF Program
    <3>2. r.terminal = "normal" /\ prog' = [prog EXCEPT ![p] = Ended(r)]
      BY <2>1, <2>2, <2>5, <3>1 DEF Refused
    <3> QED BY <2>4, <3>1, <3>2
  <2>6. CASE SetupTerminalFails(p)
    <3>1. PICK s \in {"normal", "raw", "alternate"} :
            prog' = [prog EXCEPT ![p] = Ended([@ EXCEPT !.terminal = s, !.clean = (s = "normal")])]
      BY <2>6 DEF SetupTerminalFails
    <3> DEFINE r == [prog[p] EXCEPT !.terminal = s, !.clean = (s = "normal")]
    <3>2. prog[p].echo
      BY <2>2, <2>6 DEF SetupTerminalFails, Reading
    <3>3. r \in Program /\ r.echo /\ (r.clean => r.terminal = "normal")
      BY <2>1, <3>2 DEF Program
    <3> QED BY <2>1, <2>4, <3>1, <3>3
  <2>7. CASE InitFails(p) \/ QuitLoop(p) \/ RunFails(p)
    <3>1. prog' = [prog EXCEPT ![p] = Ended(Restore(prog[p]))] /\ prog[p].echo
      <4>1. CASE InitFails(p)
        BY <2>1, <2>2, <4>1 DEF InitFails, Reading
      <4>2. CASE QuitLoop(p)
        BY <2>1, <2>2, <4>2 DEF QuitLoop, Reading, Running
      <4>3. CASE RunFails(p)
        BY <2>1, <2>2, <4>3 DEF RunFails, Reading, Running
      <4> QED BY <2>7, <4>1, <4>2, <4>3
    <3> QED BY <2>1, <2>4, <3>1, ProgramTypes
  <2>8. CASE Die(p)
    <3> DEFINE r == [prog[p] EXCEPT !.clean = FALSE]
    <3>1. r \in Program /\ ~r.clean
      BY <2>1 DEF Program
    <3> QED BY <2>1, <2>4, <2>8, <3>1 DEF Die
  <2>9. CASE Start(p)
    <3>1. prog'[p].at \in Reading /\ prog'[p].terminal = "normal"
      BY <2>1, <2>9 DEF Start, NewProgram, Reading
    <3> QED BY <2>3, <3>1 DEF Reading
  <2>10. CASE WrongPassphrase(p)
    <3>1. prog'[p].at = "unlock" /\ prog'[p].terminal = prog[p].terminal /\ prog[p].at = "unlock"
      BY <2>1, <2>10 DEF WrongPassphrase
    <3> QED BY <2>2, <2>3, <3>1 DEF Reading
  <2>11. CASE Unlock(p)
    <3>1. /\ prog'[p].at = "terminal" /\ prog'[p].terminal = prog[p].terminal
          /\ prog[p].at = "unlock" /\ prog'[p].echo
      BY <2>1, <2>11 DEF Unlock
    <3> QED BY <2>2, <2>3, <3>1 DEF Reading
  <2>12. CASE Create(p)
    <3>1. /\ prog'[p].at = "keys" /\ prog'[p].terminal = prog[p].terminal
          /\ prog[p].at = "setup" /\ prog'[p].echo
      BY <2>1, <2>12 DEF Create
    <3> QED BY <2>2, <2>3, <3>1 DEF Reading
  <2>13. CASE CreateKeys(p)
    <3>1. /\ prog'[p].at = "terminal" /\ prog'[p].terminal = prog[p].terminal
          /\ prog[p].at = "keys" /\ prog'[p].echo = prog[p].echo
      BY <2>1, <2>13 DEF CreateKeys
    <3> QED BY <2>2, <2>3, <3>1 DEF Reading
  <2>14. ASSUME prog'[p].at \notin Reading \cup {"keys", "terminal", "ended"},
                prog'[p].echo = prog[p].echo, prog[p].at \notin Reading \cup {"ended"}
         PROVE  TerminalInv'
    BY <2>2, <2>3, <2>14
  <2>15. CASE SetupTerminal(p)
    BY <2>1, <2>14, <2>15 DEF SetupTerminal, Reading
  <2>16. CASE Authenticate(p)
    BY <2>1, <2>14, <2>16 DEF Authenticate, Go, Reading
  <2>17. CASE AddOnion(p)
    BY <2>1, <2>14, <2>17 DEF AddOnion, Go, Reading
  <2>18. CASE Bind(p)
    BY <2>1, <2>14, <2>18 DEF Bind, Go, Reading
  <2>19. CASE EnterLoop(p)
    BY <2>1, <2>14, <2>19 DEF EnterLoop, Go, Reading
  <2>20. CASE SaveInLoop(p)
    BY <2>1, <2>14, <2>20 DEF SaveInLoop, Reading
  <2>21. CASE SignalNewnym(p)
    BY <2>1, <2>14, <2>21 DEF SignalNewnym, Reading
  <2>22. CASE ControlLoop(p)
    BY <2>1, <2>14, <2>22 DEF ControlLoop, Reading
  <2> QED
    BY <1>2, <2>5, <2>6, <2>7, <2>8, <2>9, <2>10, <2>11, <2>12, <2>13, <2>15, <2>16, <2>17,
       <2>18, <2>19, <2>20, <2>21, <2>22 DEF ProcessStep
<1> QED
  BY <1>1, <1>2 DEF Next, TorRestart, Network, Accept, FrameArrives, FrameFails, ReadFrame,
                    HandleFrame, vars

\* A service is added by a program that runs and goes with it.
LEMMA OnionStep == TransportInv /\ [Next]_vars => OnionInv'
<1> SUFFICES ASSUME TransportInv, [Next]_vars PROVE OnionInv'
  OBVIOUS
<1>0. TypeOK /\ OnionInv /\ \A o \in onions : o.by \in Process
  BY DEF TransportInv, TypeOK, Onion
<1>1. CASE UNCHANGED prog /\ onions' \subseteq onions
  BY <1>0, <1>1 DEF OnionInv
<1>2. ASSUME NEW p \in Process, ProcessStep(p) PROVE OnionInv'
  <2>1. /\ \A q \in Process \ {p} : prog'[q] = prog[q]
        /\ prog[p] \in Program /\ prog \in [Process -> Program]
    BY <1>0, <1>2, ProgramStep DEF TypeOK
  <2>2. CASE Ends(p)
    <3>1. prog'[p].at = "ended" /\ onions' = {o \in onions : o.by # p}
      BY <1>0, <2>2, EndOf, Released
    <3> QED BY <1>0, <2>1, <3>1 DEF OnionInv
  <2>3. ASSUME prog'[p].at # "ended", \A o \in onions' : o \in onions \/ o.by = p
        PROVE  OnionInv'
    BY <1>0, <2>1, <2>3 DEF OnionInv
  <2>4. CASE AddOnion(p)
    <3>1. prog'[p].at # "ended"
      BY <2>1, <2>4 DEF AddOnion, Go
    <3>2. \A o \in onions' : o \in onions \/ o.by = p
      BY <2>4 DEF AddOnion
    <3> QED BY <2>3, <3>1, <3>2
  <2>5. CASE ~Ends(p) /\ ~AddOnion(p)
    <3>1. onions' = onions
      BY <1>2, <2>5 DEF ProcessStep, Ends, Start, Unlock, WrongPassphrase, Create, CreateKeys,
         SetupTerminal, Authenticate, Bind, EnterLoop, SaveInLoop, SignalNewnym, ControlLoop, shared
    <3>2. prog'[p].at # "ended"
      <4>1. CASE Start(p)
        BY <2>1, <4>1 DEF Start, NewProgram
      <4>2. CASE Unlock(p)
        BY <2>1, <4>2 DEF Unlock
      <4>3. CASE WrongPassphrase(p)
        BY <2>1, <4>3 DEF WrongPassphrase
      <4>4. CASE Create(p)
        BY <2>1, <4>4 DEF Create
      <4>5. CASE CreateKeys(p)
        BY <2>1, <4>5 DEF CreateKeys
      <4>6. CASE SetupTerminal(p)
        BY <2>1, <4>6 DEF SetupTerminal
      <4>7. CASE Authenticate(p)
        BY <2>1, <4>7 DEF Authenticate, Go
      <4>8. CASE Bind(p)
        BY <2>1, <4>8 DEF Bind, Go
      <4>9. CASE EnterLoop(p)
        BY <2>1, <4>9 DEF EnterLoop, Go
      <4>10. CASE SaveInLoop(p)
        BY <2>1, <4>10 DEF SaveInLoop
      <4>11. CASE SignalNewnym(p)
        BY <2>1, <4>11 DEF SignalNewnym
      <4>12. CASE ControlLoop(p)
        BY <2>1, <4>12 DEF ControlLoop
      <4> QED
        BY <1>2, <2>5, <4>1, <4>2, <4>3, <4>4, <4>5, <4>6, <4>7, <4>8, <4>9, <4>10, <4>11, <4>12 DEF ProcessStep, Ends
    <3> QED BY <2>3, <3>1, <3>2
  <2> QED BY <2>2, <2>4, <2>5
<1> QED
  BY <1>1, <1>2 DEF Next, TorRestart, Network, Accept, FrameArrives, FrameFails, ReadFrame,
                    HandleFrame, vars

\* The invariant of the runs of the programs.
LEMMA Invariance == Spec => []TransportInv
<1>1. Init => TransportInv
  <2> SUFFICES ASSUME Init PROVE TransportInv
    OBVIOUS
  <2>1. Held = {} /\ Cardinality(Held) <= MaxInbound
    <3>1. Held = {}
      BY DEF Init, Held
    <3> QED BY <3>1, FS_EmptySet, TransportConstants
  <2>2. TypeOK
    <3>1. queue \in Seq(Conn) /\ file \in [Vault -> 0..MaxWrites] /\ starts \in 0..MaxStarts
      BY TransportConstants DEF Init
    <3>2. prog \in [Process -> Program] /\ conn \in [Conn -> Connection]
      BY ProgramTypes DEF Init, Connection
    <3> QED BY <2>1, <3>1, <3>2 DEF Init, TypeOK
  <2>3. \A p \in Process : prog[p] = NewProgram
    BY DEF Init
  <2> QED
    BY <2>2, <2>3, TransportConstants
       DEF Init, TransportInv, PortInv, VaultInv, TerminalInv, OnionInv, Holds, NewProgram, Reading
<1>2. TransportInv /\ [Next]_vars => TransportInv'
  BY TypeStep, PortStep, VaultStep, TerminalStep, OnionStep DEF TransportInv
<1> QED BY <1>1, <1>2, PTL DEF Spec

\* Every variable keeps its type, and no more connections are read at a time than
\* there are permits.
THEOREM TypesCorrect == Spec => []TypeOK
BY Invariance, PTL DEF TransportInv

\* A program in its main loop has the vault as it is on disk, unless another one
\* read or made it while both had it and did not listen yet.
THEOREM NoUpdateIsLost == Spec => []NoLostUpdate
<1>1. TransportInv => NoLostUpdate
  BY DEF TransportInv, VaultInv, NoLostUpdate, Holds, Reading
<1> QED BY <1>1, Invariance, PTL

\* A program that has ended by itself leaves an ordinary terminal and no service.
THEOREM NothingIsLeft == Spec => []LeavesNothing
<1>1. TransportInv => LeavesNothing
  BY DEF TransportInv, TerminalInv, OnionInv, LeavesNothing
<1> QED BY <1>1, Invariance, PTL
=============================================================================
