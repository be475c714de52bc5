----------------------------- MODULE Transport -----------------------------
(***************************************************************************)
(* A run of op4-tui from main() to the end of the process, and the Tor     *)
(* transport it starts (network/nym_client.rs): passphrases, terminal,     *)
(* control port, hidden service, listener, and the inbound connections     *)
(* with their limit.  Programs on one machine share the Tor daemon, the    *)
(* listening port and perhaps the vault; Tor itself may restart.  What is  *)
(* sent is module Outbox.                                                  *)
(***************************************************************************)
EXTENDS Naturals, Sequences, FiniteSets, SequencesExt

CONSTANTS
  Process,      \* programs, each in a terminal of its own
  Vault,
  Conn,         \* inbound connections
  NoProcess,
  MaxInbound,   \* MAX_INBOUND_CONNECTIONS
  MaxNewnym,    \* the capacity of the NEWNYM channel
  MaxWrites,    \* bound: writes of a vault
  MaxStarts     \* bound: starts of programs

ASSUME TransportConstants ==
  /\ NoProcess \notin Process /\ IsFiniteSet(Conn)
  /\ MaxInbound \in Nat \ {0} /\ MaxNewnym \in Nat \ {0}
  /\ MaxWrites \in Nat \ {0} /\ MaxStarts \in Nat

VARIABLES
  prog,      \* each program: where it is, and its terminal
  home,      \* the vault each program opens
  file,      \* how often each vault has been written, 0: there is none
  onions,    \* the hidden services Tor has, each for a control connection
  listener,  \* the program that listens on LISTEN_PORT
  conn,      \* each inbound connection
  queue,     \* received and not yet handled by the program that listens
  starts,    \* bounds starts
  overlap    \* history: programs whose vault another one read or made while they started

vars == <<prog, home, file, onions, listener, conn, queue, starts, overlap>>
shared == <<onions, listener, conn, queue>>

Reading == {"unlock", "setup"}
Running == {"loop", "duress"}
Steps == Reading \cup Running
           \cup {"ended", "keys", "terminal", "tor", "onion", "bind", "seccomp"}
\* terminal: as the shell left it, in raw mode, or also on the alternate screen.
Program == [at : Steps, attempt : 1..3, duress : BOOLEAN, base : 0..MaxWrites,
            echo : BOOLEAN, terminal : {"normal", "raw", "alternate"},
            newnym : 0..MaxNewnym, clean : BOOLEAN]
NewProgram == [at |-> "ended", attempt |-> 1, duress |-> FALSE, base |-> 0, echo |-> TRUE,
               terminal |-> "normal", newnym |-> 0, clean |-> TRUE]

\* A hidden service, by its key: that of a vault, or a random one of a program.
Onion == [key : Vault \cup Process, by : Process]
Connection ==
  [st : {"unused", "open", "complete", "queued", "handled", "lost"}, at : Process \cup {NoProcess}]

Init ==
  /\ prog = [p \in Process |-> NewProgram]
  /\ home \in [Process -> Vault]
  /\ file \in [Vault -> {0, 1}]
  /\ onions = {} /\ listener = NoProcess
  /\ conn = [c \in Conn |-> [st |-> "unused", at |-> NoProcess]]
  /\ queue = <<>> /\ starts = 0 /\ overlap = {}

-----------------------------------------------------------------------------
(* The end of a process.                                                   *)

OnionsWithout(p) == {o \in onions : o.by # p}

\* Its sockets close: Tor forgets the service, the port is free, what had arrived
\* is lost.
Release(p) ==
  /\ onions' = OnionsWithout(p)
  /\ overlap' = overlap \ {p}
  /\ IF listener = p
     THEN /\ listener' = NoProcess /\ queue' = <<>>
          /\ conn' = [c \in Conn |-> IF conn[c].st \in {"open", "complete", "queued"}
                                     THEN [conn[c] EXCEPT !.st = "lost"] ELSE conn[c]]
     ELSE UNCHANGED <<listener, queue, conn>>

\* Mutant: the terminal is left as it is.
RestoreNot(r) == r

\* restore_terminal
Restore(r) == [r EXCEPT !.terminal = "normal"]

\* process::exit, or the end of main: only the terminal is left.
Ended(r) == [NewProgram EXCEPT !.echo = r.echo, !.terminal = r.terminal, !.clean = r.clean]

Go(p, step) == prog' = [prog EXCEPT ![p].at = step]

-----------------------------------------------------------------------------
(* main(), up to the transport.                                            *)

\* Other programs that have the vault in memory, and those of them that are not
\* listening yet.
Holders(p) ==
  {q \in Process \ {p} : home[q] = home[p] /\ prog[q].at \notin Reading \cup {"ended"}}
Starting(p) == {q \in Holders(p) : listener # q}

\* Echo goes off for the first prompt.
Start(p) ==
  /\ prog[p].at = "ended" /\ starts < MaxStarts
  /\ starts' = starts + 1
  /\ prog' = [prog EXCEPT ![p] = [NewProgram EXCEPT
                !.at = IF file[home[p]] > 0 THEN "unlock" ELSE "setup", !.echo = FALSE]]
  /\ UNCHANGED <<home, file, overlap, shared>>

\* unlock_existing_vault: the real vault or the decoy, as it is on disk now.
Unlock(p) ==
  /\ prog[p].at = "unlock"
  /\ \E d \in BOOLEAN :
       prog' = [prog EXCEPT ![p] = [@ EXCEPT !.at = "terminal", !.duress = d, !.echo = TRUE,
                                             !.base = file[home[p]]]]
  /\ overlap' = IF Holders(p) = {} THEN overlap ELSE overlap \cup Starting(p) \cup {p}
  /\ UNCHANGED <<home, file, starts, shared>>

\* Three attempts.
WrongPassphrase(p) ==
  /\ prog[p].at = "unlock" /\ prog[p].attempt < 3
  /\ prog' = [prog EXCEPT ![p].attempt = @ + 1, ![p].echo = FALSE]
  /\ UNCHANGED <<home, file, starts, overlap, shared>>

\* The third wrong one, a vault that cannot be read or written, a terminal that
\* fails: the echo is restored first.
Refused(p) ==
  /\ prog[p].at \in Reading \cup {"keys"}
  /\ prog' = [prog EXCEPT ![p] = Ended([@ EXCEPT !.echo = TRUE])]
  /\ Release(p)
  /\ UNCHANGED <<home, file, starts>>

Write(p) ==
  /\ file[home[p]] < MaxWrites
  /\ file' = [file EXCEPT ![home[p]] = @ + 1]

\* create_new_vault: two passphrases, then VaultUnlocked::create, which replaces
\* a vault that has appeared meanwhile, ...
Create(p) ==
  /\ prog[p].at = "setup"
  /\ Write(p)
  /\ prog' = [prog EXCEPT ![p] = [@ EXCEPT !.at = "keys", !.echo = TRUE, !.base = file'[home[p]]]]
  /\ overlap' = IF Holders(p) = {} THEN overlap ELSE overlap \cup Holders(p) \cup {p}
  /\ UNCHANGED <<home, starts, shared>>

\* ... then the keys are made and saved.
CreateKeys(p) ==
  /\ prog[p].at = "keys"
  /\ Write(p)
  /\ prog' = [prog EXCEPT ![p] = [@ EXCEPT !.at = "terminal", !.base = file'[home[p]]]]
  /\ UNCHANGED <<home, starts, overlap, shared>>

\* setup_terminal
SetupTerminal(p) ==
  /\ prog[p].at = "terminal"
  /\ prog' = [prog EXCEPT ![p] = [@ EXCEPT !.at = "tor", !.terminal = "alternate"]]
  /\ UNCHANGED <<home, file, starts, overlap, shared>>

\* One of its later calls fails, and nothing undoes the earlier ones.
SetupTerminalFails(p) ==
  /\ prog[p].at = "terminal"
  /\ \E t \in {"normal", "raw", "alternate"} :
       prog' = [prog EXCEPT ![p] = Ended([@ EXCEPT !.terminal = t, !.clean = (t = "normal")])]
  /\ Release(p)
  /\ UNCHANGED <<home, file, starts>>

-----------------------------------------------------------------------------
(* NymClient::init.                                                        *)

\* tor_authenticate, on a new control connection.
Authenticate(p) ==
  /\ prog[p].at = "tor"
  /\ Go(p, "onion")
  /\ UNCHANGED <<home, file, starts, overlap, shared>>

\* From the identity keys; the decoy has none and gets a random one.
ServiceKey(p) == IF prog[p].duress THEN p ELSE home[p]

\* ADD_ONION: Tor refuses a service it has.
AddOnion(p) ==
  /\ prog[p].at = "onion"
  /\ \A o \in onions : o.key # ServiceKey(p)
  /\ onions' = onions \cup {[key |-> ServiceKey(p), by |-> p]}
  /\ Go(p, "bind")
  /\ UNCHANGED <<home, file, starts, overlap, listener, conn, queue>>

\* Mutant: the port is taken over from another program.
PortFreeAlways == TRUE

PortFree == listener = NoProcess

\* TcpListener::bind, and the background tasks.
Bind(p) ==
  /\ prog[p].at = "bind" /\ PortFree
  /\ listener' = p
  /\ Go(p, "seccomp")
  /\ UNCHANGED <<home, file, starts, overlap, onions, conn, queue>>

\* install_seccomp_filter, and run().
EnterLoop(p) ==
  /\ prog[p].at = "seccomp"
  /\ Go(p, IF prog[p].duress THEN "duress" ELSE "loop")
  /\ UNCHANGED <<home, file, starts, overlap, shared>>

\* Any step fails: the terminal is restored and the program exits.
InitFails(p) ==
  /\ prog[p].at \in {"tor", "onion", "bind", "seccomp"}
  /\ prog' = [prog EXCEPT ![p] = Ended(Restore(@))]
  /\ Release(p)
  /\ UNCHANGED <<home, file, starts>>

-----------------------------------------------------------------------------
(* run().                                                                  *)

\* Whatever the loop saves.
SaveInLoop(p) ==
  /\ prog[p].at = "loop"
  /\ Write(p)
  /\ prog' = [prog EXCEPT ![p].base = file'[home[p]]]
  /\ UNCHANGED <<home, starts, overlap, shared>>

\* The user quits: a last save, but not of the decoy.
QuitLoop(p) ==
  /\ prog[p].at \in Running
  /\ IF prog[p].at = "loop" THEN Write(p) ELSE UNCHANGED file
  /\ prog' = [prog EXCEPT ![p] = Ended(Restore(@))]
  /\ Release(p)
  /\ UNCHANGED <<home, starts>>

\* The terminal fails within run(): no last save.
RunFails(p) ==
  /\ prog[p].at \in Running
  /\ prog' = [prog EXCEPT ![p] = Ended(Restore(@))]
  /\ Release(p)
  /\ UNCHANGED <<home, file, starts>>

\* Killed, or a panic, wherever it is.
Die(p) ==
  /\ prog[p].at # "ended"
  /\ prog' = [prog EXCEPT ![p] = Ended([@ EXCEPT !.clean = FALSE])]
  /\ Release(p)
  /\ UNCHANGED <<home, file, starts>>

\* signal_newnym: try_send.
SignalNewnym(p) ==
  /\ prog[p].at = "loop" /\ prog[p].newnym < MaxNewnym
  /\ prog' = [prog EXCEPT ![p].newnym = @ + 1]
  /\ UNCHANGED <<home, file, starts, overlap, shared>>

\* control_loop: one signal; on a dead control connection it is dropped.
ControlLoop(p) ==
  /\ prog[p].newnym > 0 /\ prog[p].at = "loop"
  /\ prog' = [prog EXCEPT ![p].newnym = @ - 1]
  /\ UNCHANGED <<home, file, starts, overlap, shared>>

\* The Tor daemon is restarted: it knows no service, and no program notices.
TorRestart ==
  /\ onions # {}
  /\ onions' = {}
  /\ UNCHANGED <<prog, home, file, listener, conn, queue, starts, overlap>>

-----------------------------------------------------------------------------
(* Inbound connections.  A peer reaches a service, Tor the port behind it. *)

Held == {c \in Conn : conn[c].st \in {"open", "complete"}}

\* Mutant: one connection too many.
PermitOneMore == Cardinality(Held) <= MaxInbound

\* try_acquire_owned
Permit == Cardinality(Held) < MaxInbound

\* inbound_loop: without a permit the connection is dropped.
Accept(c) ==
  /\ conn[c].st = "unused" /\ onions # {} /\ listener # NoProcess
  /\ conn' = [conn EXCEPT ![c] = [st |-> IF Permit THEN "open" ELSE "lost", at |-> listener]]
  /\ UNCHANGED <<prog, home, file, onions, listener, queue, starts, overlap>>

\* The peer has written a whole frame, ...
FrameArrives(c) ==
  /\ conn[c].st = "open"
  /\ conn' = [conn EXCEPT ![c].st = "complete"]
  /\ UNCHANGED <<prog, home, file, onions, listener, queue, starts, overlap>>

\* ... or has announced too long a one or closed the connection.  Until then the
\* task waits, without a time limit.
FrameFails(c) ==
  /\ conn[c].st = "open"
  /\ conn' = [conn EXCEPT ![c].st = "lost"]
  /\ UNCHANGED <<prog, home, file, onions, listener, queue, starts, overlap>>

\* read_frame; the permit goes back as the task ends.
ReadFrame(c) ==
  /\ conn[c].st = "complete"
  /\ conn' = [conn EXCEPT ![c].st = "queued"]
  /\ queue' = Append(queue, c)
  /\ UNCHANGED <<prog, home, file, onions, listener, starts, overlap>>

\* Mutant: a pass of the loop takes the latest frame and forgets the others.
QueueAfterDropped == <<>>

QueueAfter == Tail(queue)

\* try_recv_msg; the loop of the decoy never looks.
HandleFrame ==
  /\ queue # <<>> /\ listener # NoProcess /\ prog[listener].at = "loop"
  /\ conn' = [conn EXCEPT ![Head(queue)].st = "handled"]
  /\ queue' = QueueAfter
  /\ UNCHANGED <<prog, home, file, onions, listener, starts, overlap>>

-----------------------------------------------------------------------------
ProcessStep(p) ==
  \/ Start(p) \/ Unlock(p) \/ WrongPassphrase(p) \/ Refused(p)
  \/ Create(p) \/ CreateKeys(p) \/ SetupTerminal(p) \/ SetupTerminalFails(p)
  \/ Authenticate(p) \/ AddOnion(p) \/ Bind(p) \/ EnterLoop(p) \/ InitFails(p)
  \/ SaveInLoop(p) \/ QuitLoop(p) \/ RunFails(p) \/ Die(p)
  \/ SignalNewnym(p) \/ ControlLoop(p)

Network ==
  \E c \in Conn : Accept(c) \/ FrameArrives(c) \/ FrameFails(c) \/ ReadFrame(c)

Next == (\E p \in Process : ProcessStep(p)) \/ TorRestart \/ Network \/ HandleFrame

\* The tasks and the loop run; peers, users and Tor need not do anything.
Fairness == (\A c \in Conn : WF_vars(ReadFrame(c))) /\ WF_vars(HandleFrame)
              /\ \A p \in Process : WF_vars(EnterLoop(p))

Spec == Init /\ [][Next]_vars /\ Fairness

-----------------------------------------------------------------------------
(* Properties.                                                             *)

TypeOK ==
  /\ prog \in [Process -> Program]
  /\ home \in [Process -> Vault] /\ file \in [Vault -> 0..MaxWrites]
  /\ onions \subseteq Onion /\ listener \in Process \cup {NoProcess}
  /\ conn \in [Conn -> Connection] /\ Cardinality(Held) <= MaxInbound
  /\ queue \in Seq(Conn) /\ starts \in 0..MaxStarts

\* The listening port is all that keeps two programs from one vault: a program in
\* the loop has what is on disk, so that its saves undo nobody else's, unless it
\* read the vault while another program still had it.
NoLostUpdate ==
  \A p \in Process \ overlap : prog[p].at = "loop" => prog[p].base = file[home[p]]

\* A program that has ended by itself leaves the terminal as it found it and no
\* service with Tor; a panic, a kill or half of setup_terminal may not.
LeavesNothing ==
  \A p \in Process : prog[p].at = "ended" =>
    /\ prog[p].clean => prog[p].terminal = "normal" /\ prog[p].echo
    /\ \A o \in onions : o.by # p

\* A frame that has arrived is handled, whatever other peers leave unfinished, or
\* the program ends; only the loop of the decoy leaves it.
FrameHandled ==
  \A c \in Conn : conn[c].st = "complete"
    ~> conn[c].st \in {"handled", "lost"} \/ \E p \in Process :
         conn[c].at = p /\ prog[p].at = "duress"
=============================================================================
