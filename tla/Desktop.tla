------------------------------- MODULE Desktop -------------------------------
(***************************************************************************)
(* The desktop shell around the server: the active project, the boot       *)
(* machine, and the slot of the one server process.  Every boot runs on a  *)
(* thread of its own under an epoch; a server is named by the epoch of the *)
(* boot that spawned it.  The servers of one project share a port file.    *)
(***************************************************************************)
EXTENDS Integers

CONSTANTS
    Projects,
    MaxBoots,     \* bound: boots
    MaxDeaths     \* bound: servers that exit by themselves, spawns that fail

ASSUME BootAssumption == MaxBoots \in Nat \ {0} /\ MaxDeaths \in Nat /\ "none" \notin Projects

Epochs == 1 .. MaxBoots
None   == 0

VARIABLES
    active,    \* registry: active_id
    epoch,     \* of the newest switch
    machine,   \* BootMachine: phase, project, port and the newest epoch accepted
    slot,      \* the server process, or None
    server,    \* each child: alive, and whether it has written its port
    portFile,  \* per project: whose port the file holds
    boot,      \* each boot thread: project, control point, port read, server in hand
    quit,      \* stop_all: "no", "take", "kill", "file", "exit", "gone", and its server
    deaths

shellVars == <<active, epoch, machine, slot, server, portFile, boot, quit, deaths>>

NoThread  == [pc |-> "none", project |-> "none", port |-> None, hand |-> None]
NewServer == [alive |-> FALSE, ported |-> FALSE]
ToEnd(t)  == [NoThread EXCEPT !.pc = "done", !.project = t.project]

ShellInit ==
    /\ active \in Projects \cup {"none"} /\ epoch = 0
    /\ machine = [phase |-> "idle", project |-> "none", port |-> None, epoch |-> 0]
    /\ slot = None /\ server = [e \in Epochs |-> NewServer]
    /\ portFile = [p \in Projects |-> None] /\ boot = [e \in Epochs |-> NoThread]
    /\ quit = [pc |-> "no", hand |-> None] /\ deaths = 0

Stale(e) == quit.pc # "no" \/ epoch # e
At(e, p) == boot[e].pc = p /\ quit.pc # "gone"
Goto(e, p)  == boot' = [boot EXCEPT ![e].pc = p]
Grab(e, s, p) == boot' = [boot EXCEPT ![e].pc = p, ![e].hand = s]

-----------------------------------------------------------------------------
(* Commands, one at a time on the main thread                              *)

Boot(p) ==
    /\ epoch < MaxBoots /\ epoch' = epoch + 1
    /\ boot' = [boot EXCEPT ![epoch'] = [NoThread EXCEPT !.pc = "begin", !.project = p]]

\* The project that is running is only brought back into view.
Select(p) ==
    /\ quit.pc = "no" /\ active' = p
    /\ IF machine.phase = "running" /\ machine.project = p THEN UNCHANGED <<epoch, boot>> ELSE Boot(p)
    /\ UNCHANGED <<machine, slot, server, portFile, quit, deaths>>

\* boot_persisted_active, retry_boot, restart_active_project, configure_project
Reboot ==
    /\ quit.pc = "no" /\ active # "none" /\ Boot(active)
    /\ UNCHANGED <<active, machine, slot, server, portFile, quit, deaths>>

-----------------------------------------------------------------------------
(* shutdown: terminate or kill the child, then remove the port file        *)

Unport(p) == portFile' = [portFile EXCEPT ![p] = None]

\* A server that ends in good order removes its port file itself.
Kill(s) ==
    /\ server' = [server EXCEPT ![s].alive = FALSE]
    /\ Unport(boot[s].project) \/ UNCHANGED portFile

StopsAt == {"stopPrevious", "stopOrphan", "stopFailed"}
FileAt  == {"filePrevious", "fileOrphan", "fileFailed"}
After(p) ==
    [stopPrevious |-> "filePrevious", stopOrphan |-> "fileOrphan", stopFailed |-> "fileFailed",
     filePrevious |-> "start", fileOrphan |-> "done", fileFailed |-> "fail"][p]

StopKill(e) ==
    /\ boot[e].pc \in StopsAt /\ quit.pc # "gone"
    /\ Kill(boot[e].hand) /\ Goto(e, After(boot[e].pc))
    /\ UNCHANGED <<active, epoch, machine, slot, quit, deaths>>

StopFile(e) ==
    /\ boot[e].pc \in FileAt /\ quit.pc # "gone"
    /\ Unport(boot[boot[e].hand].project) /\ Grab(e, None, After(boot[e].pc))
    /\ UNCHANGED <<active, epoch, machine, slot, server, quit, deaths>>

-----------------------------------------------------------------------------
(* run_boot                                                                *)

\* Mutant: a stale boot still takes the server it finds.
BeginLate(e) ==
    /\ At(e, "begin") /\ slot' = None
    /\ IF slot = None THEN Goto(e, "start") ELSE Grab(e, slot, "stopPrevious")
    /\ UNCHANGED <<active, epoch, machine, server, portFile, quit, deaths>>

\* The previous server leaves the slot under its lock.
Begin(e) ==
    /\ At(e, "begin")
    /\ IF Stale(e) THEN Goto(e, "done") /\ UNCHANGED slot
       ELSE /\ slot' = None
            /\ IF slot = None THEN Goto(e, "start") ELSE Grab(e, slot, "stopPrevious")
    /\ UNCHANGED <<active, epoch, machine, server, portFile, quit, deaths>>

\* BootMachine.start: only the machine's own epoch is compared.
StartMachine(e) ==
    /\ At(e, "start")
    /\ IF e < machine.epoch THEN Goto(e, "done") /\ UNCHANGED machine
       ELSE /\ Goto(e, "spawn")
            /\ machine' = [phase |-> "starting", project |-> boot[e].project, port |-> None, epoch |-> e]
    /\ UNCHANGED <<active, epoch, slot, server, portFile, quit, deaths>>

SpawnServer(e) ==
    /\ At(e, "spawn") /\ Unport(boot[e].project) /\ Goto(e, "store")
    /\ server' = [server EXCEPT ![e].alive = TRUE]
    /\ UNCHANGED <<active, epoch, machine, slot, quit, deaths>>

SpawnServerFails(e) ==
    /\ At(e, "spawn") /\ deaths < MaxDeaths /\ deaths' = deaths + 1 /\ Goto(e, "fail")
    /\ UNCHANGED <<active, epoch, machine, slot, server, portFile, quit>>

\* Mutant: a stale boot drops the handle of its child.
StoreForgets(e) ==
    /\ At(e, "store")
    /\ IF Stale(e) THEN Goto(e, "done") /\ UNCHANGED slot ELSE slot' = e /\ Goto(e, "wait")
    /\ UNCHANGED <<active, epoch, machine, server, portFile, quit, deaths>>

\* store_server hands back the child of a stale boot, or a displaced one.
Store(e) ==
    /\ At(e, "store")
    /\ IF Stale(e) THEN Grab(e, e, "stopOrphan") /\ UNCHANGED slot
       ELSE /\ slot' = e
            /\ IF slot = None THEN Goto(e, "wait") ELSE Grab(e, slot, "stopOrphan")
    /\ UNCHANGED <<active, epoch, machine, server, portFile, quit, deaths>>

\* wait_for_port_file: whoever wrote it; or no file within the time limit.
WaitPort(e) ==
    /\ At(e, "wait")
    /\ \/ portFile[boot[e].project] # None
          /\ boot' = [boot EXCEPT ![e].pc = "mark", ![e].port = portFile[boot[e].project]]
       \/ portFile[boot[e].project] = None /\ Goto(e, "reap")
    /\ UNCHANGED <<active, epoch, machine, slot, server, portFile, quit, deaths>>

MarkRunning(e) ==
    /\ At(e, "mark")
    /\ IF machine.phase = "starting" /\ machine.project = boot[e].project /\ machine.epoch = e
       THEN machine' = [machine EXCEPT !.phase = "running", !.port = boot[e].port] /\ Goto(e, "watch")
       ELSE Goto(e, "done") /\ UNCHANGED machine
    /\ UNCHANGED <<active, epoch, slot, server, portFile, quit, deaths>>

\* One poll of watch_for_crash that ends the watch.
Watch(e) ==
    /\ At(e, "watch")
    /\ \/ (Stale(e) \/ slot = None) /\ Goto(e, "done")
       \/ ~Stale(e) /\ slot # None /\ ~server[slot].alive /\ Goto(e, "reap")
    /\ UNCHANGED <<active, epoch, machine, slot, server, portFile, quit, deaths>>

\* take_server
Reap(e) ==
    /\ At(e, "reap")
    /\ IF Stale(e) \/ slot = None THEN Goto(e, "fail") /\ UNCHANGED slot
       ELSE slot' = None /\ Grab(e, slot, "stopFailed")
    /\ UNCHANGED <<active, epoch, machine, server, portFile, quit, deaths>>

\* Mutant: a failure is shown only of a boot that got as far as running.
FailRunning(e) ==
    /\ At(e, "fail") /\ boot' = [boot EXCEPT ![e] = ToEnd(@)]
    /\ machine' = (IF e = machine.epoch /\ machine.phase = "running" /\ machine.project = boot[e].project
                   THEN [machine EXCEPT !.phase = "failed", !.port = None] ELSE machine)
    /\ UNCHANGED <<active, epoch, slot, server, portFile, quit, deaths>>

Fail(e) ==
    /\ At(e, "fail") /\ boot' = [boot EXCEPT ![e] = ToEnd(@)]
    /\ machine' = (IF e = machine.epoch /\ machine.phase \in {"starting", "running"}
                      /\ machine.project = boot[e].project
                   THEN [machine EXCEPT !.phase = "failed", !.port = None] ELSE machine)
    /\ UNCHANGED <<active, epoch, slot, server, portFile, quit, deaths>>

BootStep(e) ==
    \/ Begin(e)
    \/ StopKill(e)
    \/ StopFile(e)
    \/ StartMachine(e)
    \/ SpawnServer(e)
    \/ SpawnServerFails(e)
    \/ Store(e)
    \/ WaitPort(e)
    \/ MarkRunning(e)
    \/ Watch(e)
    \/ Reap(e)
    \/ Fail(e)

-----------------------------------------------------------------------------
(* The children                                                            *)

WritePort(s) ==
    /\ server[s].alive /\ ~server[s].ported /\ server' = [server EXCEPT ![s].ported = TRUE]
    /\ portFile' = [portFile EXCEPT ![boot[s].project] = s]
    /\ UNCHANGED <<active, epoch, machine, slot, boot, quit, deaths>>

Die(s) ==
    /\ server[s].alive /\ Kill(s) /\ deaths < MaxDeaths /\ deaths' = deaths + 1
    /\ UNCHANGED <<active, epoch, machine, slot, boot, quit>>

-----------------------------------------------------------------------------
(* stop_all, and the exit of the process under whatever threads there are  *)

QuitFlag ==
    /\ quit.pc = "no" /\ quit' = [quit EXCEPT !.pc = "take"]
    /\ UNCHANGED <<active, epoch, machine, slot, server, portFile, boot, deaths>>

QuitTake ==
    /\ quit.pc = "take" /\ slot' = None
    /\ quit' = [pc |-> IF slot = None THEN "exit" ELSE "kill", hand |-> slot]
    /\ UNCHANGED <<active, epoch, machine, server, portFile, boot, deaths>>

QuitKill ==
    /\ quit.pc = "kill" /\ Kill(quit.hand) /\ quit' = [quit EXCEPT !.pc = "file"]
    /\ UNCHANGED <<active, epoch, machine, slot, boot, deaths>>

QuitFile ==
    /\ quit.pc = "file" /\ Unport(boot[quit.hand].project) /\ quit' = [pc |-> "exit", hand |-> None]
    /\ UNCHANGED <<active, epoch, machine, slot, server, boot, deaths>>

ExitShell ==
    /\ quit.pc = "exit" /\ quit' = [quit EXCEPT !.pc = "gone"]
    /\ UNCHANGED <<active, epoch, machine, slot, server, portFile, boot, deaths>>

Quit == QuitFlag \/ QuitTake \/ QuitKill \/ QuitFile \/ ExitShell

-----------------------------------------------------------------------------

ShellNext ==
    \/ \E p \in Projects : Select(p)
    \/ Reboot
    \/ \E e \in Epochs : BootStep(e) \/ WritePort(e) \/ Die(e)
    \/ Quit

ShellSpec == ShellInit /\ [][ShellNext]_shellVars

\* Every boot has a thread of its own, and each of its waits a time limit.
FairShell == ShellSpec /\ \A e \in Epochs : WF_shellVars(BootStep(e))

-----------------------------------------------------------------------------
(***************************************************************************)
(* What the desktop shell promises about servers, boots and what is shown. *)
(***************************************************************************)

\* "it could reap a newer boot's child and leave the machine Running over a
\* dead server": no boot ever holds the server of a newer one.
NewerNotReaped == \A e \in Epochs : boot[e].hand <= e

\* "A displaced server only exists if a newer boot raced in, which the epoch
\* check above rules out": a boot that may store its server finds the slot empty.
NeverDisplaced == \A e \in Epochs : At(e, "store") /\ ~Stale(e) => slot = None

\* "a stale thread must never touch the server slot"
SlotGuarded == NewerNotReaped /\ NeverDisplaced

Held(s) ==
    \/ slot = s \/ quit.hand = s \/ boot[s].pc = "store"
    \/ \E e \in Epochs : boot[e].hand = s

\* "never leak a child on that bet": until the shell exits, every live server
\* is in the slot or in the hands of a thread that will store or stop it.
NoLeak == quit.pc # "gone" => \A s \in Epochs : server[s].alive => Held(s)

\* What races for the slot neither reaps a newer server nor forgets its own.
SlotSafe == SlotGuarded /\ NoLeak

Lit(e) == machine.phase = "running" /\ server[e].alive

\* A boot comes to an end, and a server that dies is noticed: Starting, or
\* Running over the dead server of this boot, is never shown for good.
PhaseSettles ==
    \A e \in Epochs :
        (machine.epoch = e /\ machine.phase \in {"starting", "running"} /\ ~Lit(e))
            ~> (machine.epoch # e \/ machine.phase = "failed" \/ Lit(e) \/ quit.pc # "no")
=============================================================================
