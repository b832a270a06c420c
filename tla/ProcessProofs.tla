---------------------------- MODULE ProcessProofs ----------------------------
(***************************************************************************)
(* Theorems about the two modules that own a child process: for any        *)
(* projects, boots and deaths, what the desktop shell promises of its      *)
(* server, and for any channel and any child, what is recorded of a turn.  *)
(* The two share no state; each theorem is about its own specification.    *)
(***************************************************************************)
EXTENDS Desktop, Adapter, SequenceTheorems, TLAPS

-----------------------------------------------------------------------------
(* Desktop: the server slot                                                *)

Early   == {"none", "begin", "stopPrevious", "filePrevious", "start", "spawn"}
BootPCs == Early \cup {"store", "stopOrphan", "fileOrphan", "wait", "mark", "watch", "reap",
                       "stopFailed", "fileFailed", "fail", "done"}
Servers == 0 .. MaxBoots
Threads == [pc : BootPCs, project : Projects \cup {"none"}, port : Servers, hand : Servers]
Quits   == [pc : {"no", "take", "kill", "file", "exit", "gone"}, hand : Servers]

ShellTypes ==
    /\ epoch \in Servers /\ slot \in Servers /\ quit \in Quits /\ active \in Projects \cup {"none"}
    /\ server \in [Epochs -> [alive : BOOLEAN, ported : BOOLEAN]]
    /\ boot \in [Epochs -> Threads] /\ portFile \in [Projects -> Servers]

\* A server that has been stored, or handed back by the store, was spawned for good.
Stored(s) == s \in Epochs /\ boot[s].pc \notin Early \cup {"store"}

\* What a boot is at: a server in hand where it stops one, and no newer one.
Thread(e) ==
    /\ e > epoch => boot[e].pc = "none"
    /\ boot[e].pc # "none" => boot[e].project \in Projects
    /\ boot[e].pc \in StopsAt \cup FileAt <=> boot[e].hand # None
    /\ boot[e].hand <= e
    /\ boot[e].hand # None => Stored(boot[e].hand)
    /\ boot[e].pc \in FileAt => ~server[boot[e].hand].alive
    /\ boot[e].pc \in Early => ~server[e].alive

\* From the moment the newest boot has emptied the slot nobody else fills it.
Vacant(e) ==
    ~Stale(e) /\ boot[e].pc \in {"stopPrevious", "filePrevious", "start", "spawn", "store"} => slot = None

Taken ==
    /\ slot # None => Stored(slot) /\ slot <= epoch
    /\ quit.pc \in {"kill", "file"} <=> quit.hand # None
    /\ quit.hand # None => Stored(quit.hand)
    /\ quit.pc = "file" => ~server[quit.hand].alive

Slotted == ShellTypes /\ (\A e \in Epochs : Thread(e) /\ Vacant(e)) /\ Taken /\ NoLeak
LEMMA ShellNumbers == MaxBoots \in Nat /\ MaxBoots >= 1 /\ Servers \subseteq Nat /\ None \in Servers
                     /\ Epochs \subseteq Servers /\ None \notin Epochs /\ \A s \in Servers : s # None => s \in Epochs
BY BootAssumption DEF Servers, Epochs, None

LEMMA ShellInitSlotted == ShellInit => Slotted
<1> SUFFICES ASSUME ShellInit PROVE Slotted OBVIOUS
<1>1. ShellTypes
  <2>1. NoThread \in Threads BY ShellNumbers DEF NoThread, Threads, BootPCs, Early
  <2>2. NewServer \in [alive : BOOLEAN, ported : BOOLEAN] BY DEF NewServer
  <2>3. [pc |-> "no", hand |-> None] \in Quits BY ShellNumbers DEF Quits
  <2>4. epoch \in Servers BY ShellNumbers DEF ShellInit, None
  <2> QED BY <2>1, <2>2, <2>3, <2>4, ShellNumbers DEF ShellInit, ShellTypes
<1>2. ASSUME NEW e \in Epochs PROVE Thread(e) /\ Vacant(e)
  <2>1. boot[e].pc = "none" /\ boot[e].hand = None /\ ~server[e].alive /\ slot = None
    BY DEF ShellInit, NoThread, NewServer
  <2>2. e \in Nat /\ None <= e BY ShellNumbers DEF None
  <2> QED BY <2>1, <2>2 DEF Thread, Vacant, StopsAt, FileAt
<1>3. Taken BY ShellNumbers DEF ShellInit, Taken
<1>4. NoLeak BY DEF ShellInit, NoLeak, NewServer
<1> QED BY <1>1, <1>2, <1>3, <1>4 DEF Slotted

\* Whatever one boot does: it goes on from where it was, wakes no server but
\* its own, and what is taken out of the slot is in its hand.
LEMMA ThreadMoves ==
    ASSUME Slotted, NEW e \in Epochs, NEW k \in Threads, boot' = [boot EXCEPT ![e] = k],
           boot[e].pc # "none", k.pc # "none", k.project = boot[e].project, UNCHANGED <<epoch, active, quit>>,
           quit.pc # "gone", portFile' \in [Projects -> Servers],
           server' \in [Epochs -> [alive : BOOLEAN, ported : BOOLEAN]],
           \A s \in Epochs : server'[s].alive => server[s].alive \/ (s = e /\ k.pc = "store"),
           k.pc \in Early \cup {"store"} => boot[e].pc \in Early,
           slot' = slot \/ slot' = None \/ (slot' = e /\ ~Stale(e) /\ k.pc \notin Early \cup {"store"}),
           k.pc \in StopsAt \cup FileAt <=> k.hand # None, k.hand <= e,
           k.hand # None => Stored(k.hand) \/ (k.hand = e /\ k.pc \notin Early \cup {"store"}),
           k.pc \in FileAt => ~server'[k.hand].alive, k.pc \in Early => ~server'[e].alive, Vacant(e)',
           NoLeak'
    PROVE  Slotted'
<1>t. ShellTypes /\ Taken /\ boot \in [Epochs -> Threads] /\ e \in Nat /\ epoch \in Nat
  BY ShellNumbers DEF Slotted, ShellTypes
<1>b. boot'[e] = k /\ \A d \in Epochs : d # e => boot'[d] = boot[d] BY <1>t
<1>1. ShellTypes'
  <2>1. slot' \in Servers BY <1>t, ShellNumbers DEF ShellTypes
  <2>2. boot' \in [Epochs -> Threads] BY <1>t
  <2> QED BY <2>1, <2>2, <1>t DEF ShellTypes
<1>2. \A s : Stored(s) => s \in Epochs /\ boot'[s].pc \notin Early \cup {"store"}
  BY <1>b DEF Stored
<1>3. ASSUME NEW s, Stored(s), ~server[s].alive PROVE ~server'[s].alive
  BY <1>3 DEF Stored, Early
<1>4. ASSUME NEW d \in Epochs PROVE Thread(d)'
  <2>0. Thread(d) BY DEF Slotted
  <2>1. CASE d = e
    <3>1. k.hand # None => k.hand \in Epochs /\ boot'[k.hand].pc \notin Early \cup {"store"} BY <1>2, <1>b
    <3>2. e <= epoch BY <2>0, <2>1, <1>t DEF Thread
    <3> QED BY <3>1, <3>2, <2>0, <2>1, <1>b, <1>t DEF Thread, Stored
  <2>2. CASE d # e
    <3>1. boot'[d] = boot[d] BY <2>2, <1>b
    <3>2. boot[d].hand # None
            => Stored(boot[d].hand) /\ boot[d].hand \in Epochs /\ boot'[boot[d].hand].pc \notin Early \cup {"store"}
      BY <2>0, <1>2 DEF Thread
    <3>3. boot[d].pc \in FileAt => ~server'[boot[d].hand].alive BY <2>0, <3>2, <1>3 DEF Thread
    <3>4. boot[d].pc \in Early => ~server'[d].alive BY <2>0, <2>2 DEF Thread
    <3> QED BY <2>0, <3>1, <3>2, <3>3, <3>4 DEF Thread, Stored
  <2> QED BY <2>1, <2>2
<1>5. ASSUME NEW d \in Epochs PROVE Vacant(d)'
  <2>1. CASE d = e BY <2>1
  <2>2. CASE d # e
    <3>1. Vacant(d) /\ Stale(d)' = Stale(d) BY DEF Slotted, Stale
    <3>2. slot' \in {slot, None} \/ Stale(d) BY <2>2 DEF Stale
    <3> QED BY <3>1, <3>2, <2>2, <1>b DEF Vacant
  <2> QED BY <2>1, <2>2
<1>6. Taken'
  <2>1. slot' # None => slot' \in Epochs /\ boot'[slot'].pc \notin Early \cup {"store"} /\ slot' <= epoch
    <3>1. CASE slot' = slot BY <3>1, <1>2, <1>t DEF Taken
    <3>2. CASE slot' = e /\ k.pc \notin Early \cup {"store"}
      <4>2. e <= epoch BY <1>t DEF Slotted, Thread
      <4> QED BY <3>2, <4>2, <1>b
    <3> QED BY <3>1, <3>2
  <2>2. quit.hand # None
          => Stored(quit.hand) /\ quit.hand \in Epochs /\ boot'[quit.hand].pc \notin Early \cup {"store"}
    BY <1>2, <1>t DEF Taken
  <2>3. quit.pc = "file" => ~server'[quit.hand].alive BY <2>2, <1>3, <1>t DEF Taken
  <2> QED BY <2>1, <2>2, <2>3, <1>t DEF Taken, Stored
<1> QED BY <1>1, <1>4, <1>5, <1>6 DEF Slotted

\* A step of a boot that holds no server before or after and leaves the slot alone.
LEMMA PlainMove ==
    ASSUME Slotted, NEW e \in Epochs, NEW k \in Threads, boot' = [boot EXCEPT ![e] = k],
           boot[e].pc \notin {"none", "store"}, k.pc \notin {"none", "store"}, k.project = boot[e].project,
           boot[e].hand = None, k.hand = None, k.pc \notin StopsAt \cup FileAt, quit.pc # "gone",
           UNCHANGED <<epoch, active, quit, slot, server, portFile>>,
           k.pc \in Early => boot[e].pc \in Early, Vacant(e)'
    PROVE  Slotted'
<1>n. e \in Nat /\ None <= e BY ShellNumbers DEF None
<1>t. ShellTypes /\ boot \in [Epochs -> Threads] /\ e \in Nat /\ None <= e /\ Thread(e) /\ NoLeak
  BY <1>n DEF Slotted, ShellTypes
<1>b. boot'[e] = k /\ \A d \in Epochs : d # e => boot'[d] = boot[d] BY <1>t
<1>1. NoLeak' BY <1>t, <1>b DEF NoLeak, Held
<1>2. k.pc \in Early => ~server'[e].alive BY <1>t DEF Thread
<1>3. portFile' \in [Projects -> Servers] /\ server' \in [Epochs -> [alive : BOOLEAN, ported : BOOLEAN]]
  BY <1>t DEF ShellTypes
<1>4. k.pc \notin FileAt OBVIOUS
<1>5. k.hand <= e BY <1>t
<1>6. k.pc \in Early \cup {"store"} => boot[e].pc \in Early OBVIOUS
<1> QED BY <1>1, <1>2, <1>3, <1>4, <1>5, <1>6, ThreadMoves

\* The newest boot takes what is in the slot, to stop it.
LEMMA SlotTaken ==
    ASSUME Slotted, NEW e \in Epochs, NEW p \in StopsAt, slot # None, slot' = None, ~Stale(e),
           boot' = [boot EXCEPT ![e].pc = p, ![e].hand = slot],
           boot[e].pc \notin {"none", "store"}, boot[e].hand = None, quit.pc # "gone",
           UNCHANGED <<epoch, active, quit, server, portFile>>, p \in Early => boot[e].pc \in Early
    PROVE  Slotted'
<1>t. /\ ShellTypes /\ Taken /\ boot \in [Epochs -> Threads] /\ boot[e] \in Threads /\ e = epoch /\ Thread(e)
      /\ NoLeak /\ slot \in Servers
  BY DEF Slotted, ShellTypes, Stale
<1> DEFINE k == [boot[e] EXCEPT !.pc = p, !.hand = slot]
<1>k. /\ k \in Threads /\ k.pc = p /\ k.hand = slot /\ k.project = boot[e].project
      /\ boot' = [boot EXCEPT ![e] = k]
  BY <1>t DEF Threads, StopsAt, BootPCs, Early
<1> HIDE DEF k
<1>b. boot'[e] = k /\ \A d \in Epochs : d # e => boot'[d] = boot[d] BY <1>t, <1>k
<1>1. NoLeak'
  <2>1. \A s \in Epochs : Held(s) => Held(s)' BY <1>b, <1>k, <1>t DEF Held
  <2> QED BY <2>1, <1>t DEF NoLeak
<1>2. k.pc \in Early => ~server'[e].alive BY <1>t, <1>k DEF Thread
<1>3. portFile' \in [Projects -> Servers] /\ server' \in [Epochs -> [alive : BOOLEAN, ported : BOOLEAN]]
  BY <1>t DEF ShellTypes
<1>4. k.pc \notin FileAt /\ k.pc # "none" /\ k.pc # "store" BY <1>k DEF StopsAt, FileAt
<1>5. k.hand <= e /\ Stored(k.hand) BY <1>t, <1>k DEF Taken
<1>6. Vacant(e)' BY DEF Vacant
<1>7. k.pc \in StopsAt \cup FileAt <=> k.hand # None BY <1>k
<1>8. k.pc \in Early \cup {"store"} => boot[e].pc \in Early BY <1>k, <1>4
<1> QED BY <1>k, <1>1, <1>2, <1>3, <1>4, <1>5, <1>6, <1>7, <1>8, ThreadMoves

LEMMA AtWork ==
    ASSUME Slotted, NEW e \in Epochs, boot[e].pc # "none"
    PROVE  /\ boot \in [Epochs -> Threads] /\ boot[e] \in Threads /\ boot[e].project \in Projects /\ Thread(e)
           /\ (boot[e].pc \notin StopsAt \cup FileAt => boot[e].hand = None)
           /\ portFile \in [Projects -> Servers] /\ slot \in Servers /\ epoch \in Servers
BY DEF Slotted, ShellTypes, Thread

\* All that only move the control point, or read a port.
LEMMA PlainSteps ==
    ASSUME Slotted, NEW e \in Epochs, slot' = slot,
           \/ Begin(e) \/ StartMachine(e) \/ SpawnServerFails(e) \/ WaitPort(e) \/ MarkRunning(e)
           \/ Watch(e) \/ Reap(e) \/ Fail(e),
           Begin(e) \/ Reap(e) => slot = None \/ Stale(e)
    PROVE  Slotted'
<1>p. boot[e].pc \in {"begin", "start", "spawn", "wait", "mark", "watch", "reap", "fail"} /\ quit.pc # "gone"
  BY DEF Begin, StartMachine, SpawnServerFails, WaitPort, MarkRunning, Watch, Reap, Fail, At
<1>t. /\ boot \in [Epochs -> Threads] /\ boot[e] \in Threads /\ boot[e].project \in Projects /\ Thread(e)
      /\ boot[e].hand = None /\ portFile \in [Projects -> Servers] /\ slot \in Servers
  BY <1>p, AtWork DEF StopsAt, FileAt
<1>u. UNCHANGED <<epoch, active, quit, slot, server, portFile>>
  BY DEF Begin, StartMachine, SpawnServerFails, WaitPort, MarkRunning, Watch, Reap, Fail
<1> DEFINE Next_(k) ==
        /\ k \in Threads /\ boot' = [boot EXCEPT ![e] = k] /\ k.project = boot[e].project /\ k.hand = None
        /\ k.pc \in {"done", "start", "spawn", "fail", "mark", "reap", "watch"}
        /\ k.pc \in Early => boot[e].pc \in Early
        /\ k.pc = "start" => boot[e].pc = "begin" /\ slot = None
        /\ k.pc = "spawn" => boot[e].pc = "start"
<1>g. ASSUME NEW p \in {"done", "start", "spawn", "fail", "mark", "reap", "watch"}, Goto(e, p),
             p = "start" => boot[e].pc = "begin" /\ slot = None, p = "spawn" => boot[e].pc = "start"
      PROVE  \E k : Next_(k)
  <2>1. [boot[e] EXCEPT !.pc = p] \in Threads BY <1>t DEF Threads, BootPCs, Early
  <2>2. Next_([boot[e] EXCEPT !.pc = p]) BY <2>1, <1>t, <1>g DEF Goto, Threads, Early
  <2> QED BY <2>2
<1>k. \E k : Next_(k)
  <2>1. CASE Begin(e)
    <3>1. CASE Stale(e) BY <2>1, <3>1, <1>g DEF Begin
    <3>2. CASE ~Stale(e) BY <2>1, <3>2, <1>g DEF Begin, At
    <3> QED BY <3>1, <3>2
  <2>2. CASE StartMachine(e) BY <2>2, <1>g DEF StartMachine, At
  <2>3. CASE SpawnServerFails(e) BY <2>3, <1>g DEF SpawnServerFails
  <2>4. CASE WaitPort(e)
    <3>1. CASE Goto(e, "reap") BY <3>1, <1>g
    <3>2. CASE boot' = [boot EXCEPT ![e].pc = "mark", ![e].port = portFile[boot[e].project]]
      <4> DEFINE k == [boot[e] EXCEPT !.pc = "mark", !.port = portFile[boot[e].project]]
      <4>1. k \in Threads BY <1>t DEF Threads, BootPCs
      <4>2. k.project = boot[e].project /\ k.hand = None /\ k.pc = "mark" /\ boot' = [boot EXCEPT ![e] = k]
        BY <3>2, <1>t DEF Threads
      <4> HIDE DEF k
      <4> QED BY <4>1, <4>2 DEF Early
    <3> QED BY <2>4, <3>1, <3>2 DEF WaitPort
  <2>5. CASE MarkRunning(e) BY <2>5, <1>g DEF MarkRunning
  <2>6. CASE Watch(e) BY <2>6, <1>g DEF Watch
  <2>7. CASE Reap(e)
    <3>1. slot = None \/ Stale(e) BY <2>7
    <3> QED BY <2>7, <3>1, <1>g DEF Reap
  <2>8. CASE Fail(e)
    <3>1. ToEnd(boot[e]) \in Threads /\ ToEnd(boot[e]).pc = "done" /\ ToEnd(boot[e]).hand = None
          /\ ToEnd(boot[e]).project = boot[e].project
      BY <1>t, ShellNumbers DEF ToEnd, NoThread, Threads, BootPCs
    <3>2. boot' = [boot EXCEPT ![e] = ToEnd(boot[e])] BY <2>8 DEF Fail
    <3> QED BY <3>1, <3>2 DEF Early
  <2> QED BY <2>1, <2>2, <2>3, <2>4, <2>5, <2>6, <2>7, <2>8
<1> PICK k : Next_(k) BY <1>k
<1>1. k.pc \notin StopsAt \cup FileAt /\ k.pc \notin {"none", "store"} BY DEF StopsAt, FileAt
<1>2. Vacant(e)'
  <2>1. boot'[e] = k BY <1>t
  <2>2. Stale(e)' = Stale(e) BY <1>u DEF Stale
  <2>3. Vacant(e) BY DEF Slotted
  <2> QED BY <2>1, <2>2, <2>3, <1>u DEF Vacant
<1>3. boot[e].pc \notin {"none", "store"} BY <1>p
<1> HIDE DEF Next_
<1>4. /\ k \in Threads /\ boot' = [boot EXCEPT ![e] = k] /\ k.project = boot[e].project /\ k.hand = None
      /\ (k.pc \in Early => boot[e].pc \in Early)
  BY DEF Next_
<1> QED BY <1>1, <1>2, <1>3, <1>4, <1>p, <1>t, <1>u, PlainMove

\* The steps of a boot that touch a server or the slot.
LEMMA TakingSteps ==
    ASSUME Slotted, NEW e \in Epochs, Begin(e) \/ Reap(e), slot # None, ~Stale(e)
    PROVE  Slotted'
<1>p. boot[e].pc \in {"begin", "reap"} /\ quit.pc # "gone" BY DEF Begin, Reap, At
<1>t. boot[e].hand = None BY <1>p, AtWork DEF StopsAt, FileAt
<1>1. CASE Begin(e)
  <2>1. boot' = [boot EXCEPT ![e].pc = "stopPrevious", ![e].hand = slot] /\ slot' = None /\ boot[e].pc = "begin"
    BY <1>1 DEF Begin, Grab, At
  <2>2. UNCHANGED <<epoch, active, quit, server, portFile>> BY <1>1 DEF Begin
  <2>3. "stopPrevious" \in StopsAt /\ boot[e].pc \in Early BY <2>1 DEF StopsAt, Early
  <2> QED BY <2>1, <2>2, <2>3, <1>p, <1>t, SlotTaken
<1>2. CASE Reap(e)
  <2>1. boot' = [boot EXCEPT ![e].pc = "stopFailed", ![e].hand = slot] /\ slot' = None
    BY <1>2 DEF Reap, Grab
  <2>2. UNCHANGED <<epoch, active, quit, server, portFile>> BY <1>2 DEF Reap
  <2>3. "stopFailed" \in StopsAt /\ "stopFailed" \notin Early BY DEF StopsAt, Early
  <2> QED BY <2>1, <2>2, <2>3, <1>p, <1>t, SlotTaken
<1> QED BY <1>1, <1>2

\* What shutdown does to the child and to the port file.
LEMMA Killed ==
    ASSUME Slotted, NEW s \in Epochs, boot[s].pc # "none", Kill(s)
    PROVE  /\ portFile' \in [Projects -> Servers] /\ server' \in [Epochs -> [alive : BOOLEAN, ported : BOOLEAN]]
           /\ ~server'[s].alive /\ \A d \in Epochs : server'[d].alive => server[d].alive
<1>1. boot[s].project \in Projects /\ server \in [Epochs -> [alive : BOOLEAN, ported : BOOLEAN]]
      /\ portFile \in [Projects -> Servers]
  BY AtWork DEF Slotted, ShellTypes
<1>2. portFile' \in [Projects -> Servers] BY <1>1, ShellNumbers DEF Kill, Unport
<1>3. server' = [server EXCEPT ![s].alive = FALSE] BY DEF Kill
<1> QED BY <1>1, <1>2, <1>3

\* The server in hand is killed.
LEMMA StopKillSlotted == ASSUME Slotted, NEW e \in Epochs, StopKill(e) PROVE Slotted'
<1> DEFINE s == boot[e].hand
           k == [boot[e] EXCEPT !.pc = After(boot[e].pc)]
<1>p. boot[e].pc \in StopsAt /\ quit.pc # "gone" /\ boot[e].pc # "none" BY DEF StopKill, StopsAt
<1>t. /\ boot \in [Epochs -> Threads] /\ boot[e] \in Threads /\ boot[e].project \in Projects /\ Thread(e)
      /\ NoLeak /\ Vacant(e)
  BY <1>p, AtWork DEF Slotted
<1>s. s # None /\ s \in Epochs /\ boot[s].pc # "none" /\ Stored(s) /\ s <= e
  BY <1>p, <1>t DEF Thread, Stored, Early
<1>k. /\ k \in Threads /\ k.hand = s /\ k.project = boot[e].project /\ boot' = [boot EXCEPT ![e] = k]
      /\ k.pc = After(boot[e].pc)
  BY <1>p, <1>t DEF StopKill, Goto, Threads, StopsAt, After, BootPCs, Early
<1>u. UNCHANGED <<epoch, active, quit, slot>> /\ Kill(s) BY DEF StopKill
<1>v. /\ portFile' \in [Projects -> Servers] /\ server' \in [Epochs -> [alive : BOOLEAN, ported : BOOLEAN]]
      /\ ~server'[s].alive /\ \A d \in Epochs : server'[d].alive => server[d].alive
  BY <1>u, <1>s, Killed
<1> HIDE DEF k, s
<1>b. boot'[e] = k /\ \A d \in Epochs : d # e => boot'[d] = boot[d] BY <1>t, <1>k
<1>c. s = boot[e].hand BY DEF s
<1>1. k.pc \in FileAt /\ k.pc # "none" BY <1>k, <1>p DEF After, StopsAt, FileAt
<1>2. NoLeak'
  <2>1. \A d \in Epochs : Held(d) => Held(d)' BY <1>b, <1>k, <1>c, <1>u, <1>p DEF Held, StopsAt
  <2> QED BY <2>1, <1>t, <1>u, <1>v DEF NoLeak
<1>3. k.pc \in Early \cup {"store"} => boot[e].pc \in Early
  BY <1>k, <1>p DEF After, StopsAt, Early
<1>4. k.pc \in Early => ~server'[e].alive
  <2>1. boot[e].pc \in Early => ~server[e].alive BY <1>t DEF Thread
  <2> QED BY <2>1, <1>3, <1>v
<1>5. Vacant(e)'
  <2>1. k.pc \in {"stopPrevious", "filePrevious", "start", "spawn", "store"} => boot[e].pc = "stopPrevious"
    BY <1>k, <1>p DEF After, StopsAt
  <2> QED BY <2>1, <1>b, <1>t, <1>u DEF Vacant, Stale
<1>6. k.hand <= e /\ Stored(k.hand) /\ ~server'[k.hand].alive BY <1>k, <1>s, <1>v
<1>7. k.pc \in StopsAt \cup FileAt <=> k.hand # None BY <1>1, <1>k, <1>s
<1>8. boot[e].pc # "none" /\ quit.pc # "gone" BY <1>p
<1>9. k \in Threads /\ k.project = boot[e].project /\ boot' = [boot EXCEPT ![e] = k] BY <1>k
<1> QED BY <1>u, <1>v, <1>1, <1>2, <1>3, <1>4, <1>5, <1>6, <1>7, <1>8, <1>9, ThreadMoves

\* The port file of the server in hand is removed, and it is let go: it is dead.
LEMMA StopFileSlotted == ASSUME Slotted, NEW e \in Epochs, StopFile(e) PROVE Slotted'
<1> DEFINE s == boot[e].hand
           k == [boot[e] EXCEPT !.pc = After(boot[e].pc), !.hand = None]
<1>p. boot[e].pc \in FileAt /\ quit.pc # "gone" /\ boot[e].pc # "none" BY DEF StopFile, FileAt
<1>t. /\ boot \in [Epochs -> Threads] /\ boot[e] \in Threads /\ boot[e].project \in Projects /\ Thread(e)
      /\ NoLeak /\ Vacant(e) /\ ShellTypes
  BY <1>p, AtWork DEF Slotted
<1>s. s # None /\ s \in Epochs /\ boot[s].pc # "none" /\ ~server[s].alive
  BY <1>p, <1>t DEF Thread, Stored, Early
<1>k. /\ k \in Threads /\ k.hand = None /\ k.project = boot[e].project /\ boot' = [boot EXCEPT ![e] = k]
      /\ k.pc = After(boot[e].pc)
  <2>1. After(boot[e].pc) \in BootPCs BY <1>p DEF FileAt, After, BootPCs, Early
  <2>2. boot' = [boot EXCEPT ![e].pc = After(boot[e].pc), ![e].hand = None] BY DEF StopFile, Grab
  <2> QED BY <2>1, <2>2, <1>t, ShellNumbers DEF Threads
<1>u. UNCHANGED <<epoch, active, quit, slot, server>> /\ Unport(boot[s].project) BY DEF StopFile
<1>v. portFile' \in [Projects -> Servers]
  <2>1. boot[s].project \in Projects BY <1>s, AtWork
  <2> QED BY <2>1, <1>u, <1>t, ShellNumbers DEF Unport, ShellTypes
<1> HIDE DEF k, s
<1>b. boot'[e] = k /\ \A d \in Epochs : d # e => boot'[d] = boot[d] BY <1>t, <1>k
<1>c. s = boot[e].hand BY DEF s
<1>1. k.pc \notin FileAt \cup StopsAt /\ k.pc # "none" /\ k.pc # "store"
  BY <1>k, <1>p DEF After, StopsAt, FileAt
<1>2. NoLeak'
  <2>1. \A d \in Epochs : d # s /\ Held(d) => Held(d)' BY <1>b, <1>k, <1>c, <1>u, <1>p DEF Held, FileAt
  <2> QED BY <2>1, <1>t, <1>u, <1>s DEF NoLeak
<1>3. k.pc \in Early => boot[e].pc \in Early
  BY <1>k, <1>p DEF After, FileAt, Early
<1>4. k.pc \in Early => ~server'[e].alive BY <1>t, <1>3, <1>u DEF Thread
<1>5. Vacant(e)'
  <2>1. k.pc \in {"stopPrevious", "filePrevious", "start", "spawn", "store"} => boot[e].pc = "filePrevious"
    BY <1>k, <1>p DEF After, FileAt
  <2> QED BY <2>1, <1>b, <1>t, <1>u DEF Vacant, Stale
<1>6. k.hand <= e BY <1>k, ShellNumbers DEF None
<1>7. server' \in [Epochs -> [alive : BOOLEAN, ported : BOOLEAN]]
      /\ \A d \in Epochs : server'[d].alive => server[d].alive
  BY <1>t, <1>u DEF ShellTypes
<1>8. /\ k.pc \in StopsAt \cup FileAt <=> k.hand # None
      /\ k.pc \in Early \cup {"store"} => boot[e].pc \in Early
  BY <1>1, <1>3, <1>k
<1>9. k.pc \notin FileAt /\ k.hand = None BY <1>1, <1>k
<1> QED BY <1>p, <1>k, <1>u, <1>v, <1>1, <1>2, <1>4, <1>5, <1>6, <1>7, <1>8, <1>9, ThreadMoves

LEMMA SpawnSlotted == ASSUME Slotted, NEW e \in Epochs, SpawnServer(e) PROVE Slotted'
<1> DEFINE k == [boot[e] EXCEPT !.pc = "store"]
<1>p. boot[e].pc = "spawn" /\ quit.pc # "gone" BY DEF SpawnServer, At
<1>t. /\ boot \in [Epochs -> Threads] /\ boot[e] \in Threads /\ boot[e].project \in Projects /\ Thread(e)
      /\ NoLeak /\ Vacant(e) /\ ShellTypes /\ boot[e].hand = None
  BY <1>p, AtWork DEF Slotted, StopsAt, FileAt
<1>k. /\ k \in Threads /\ k.hand = None /\ k.project = boot[e].project /\ boot' = [boot EXCEPT ![e] = k]
      /\ k.pc = "store"
  BY <1>t DEF SpawnServer, Goto, Threads, BootPCs
<1>u. /\ UNCHANGED <<epoch, active, quit, slot>> /\ Unport(boot[e].project)
      /\ server' = [server EXCEPT ![e].alive = TRUE]
  BY DEF SpawnServer
<1>v. /\ portFile' \in [Projects -> Servers] /\ server' \in [Epochs -> [alive : BOOLEAN, ported : BOOLEAN]]
      /\ \A s \in Epochs : server'[s].alive => server[s].alive \/ s = e
  <2>1. portFile' \in [Projects -> Servers] BY <1>u, <1>t, ShellNumbers DEF Unport, ShellTypes
  <2> QED BY <2>1, <1>u, <1>t DEF ShellTypes
<1> HIDE DEF k
<1>b. boot'[e] = k /\ \A d \in Epochs : d # e => boot'[d] = boot[d] BY <1>t, <1>k
<1>1. k.pc \notin StopsAt \cup FileAt /\ k.pc \notin FileAt /\ k.pc \notin Early /\ k.pc # "none"
  BY <1>k DEF StopsAt, FileAt, Early
<1>2. NoLeak'
  <2>1. \A s \in Epochs : Held(s) \/ s = e => Held(s)' BY <1>b, <1>k, <1>u, <1>p, <1>t DEF Held
  <2> QED BY <2>1, <1>t, <1>u, <1>v DEF NoLeak
<1>3. boot[e].pc \in Early /\ boot[e].pc # "none" BY <1>p DEF Early
<1>4. Vacant(e)' BY <1>p, <1>b, <1>k, <1>t, <1>u DEF Vacant, Stale
<1>5. k.hand <= e BY <1>k, ShellNumbers DEF None
<1> QED BY <1>p, <1>k, <1>u, <1>v, <1>1, <1>2, <1>3, <1>4, <1>5, ThreadMoves

\* A stale boot keeps its child to stop it; the newest one finds the slot empty.
LEMMA StoreSlotted == ASSUME Slotted, NEW e \in Epochs, Store(e) PROVE Slotted'
<1>p. boot[e].pc = "store" /\ quit.pc # "gone" BY DEF Store, At
<1>t. /\ boot \in [Epochs -> Threads] /\ boot[e] \in Threads /\ boot[e].project \in Projects /\ Thread(e)
      /\ NoLeak /\ Vacant(e) /\ ShellTypes /\ boot[e].hand = None
  BY <1>p, AtWork DEF Slotted, StopsAt, FileAt
<1>u. UNCHANGED <<epoch, active, quit, server, portFile>> BY DEF Store
<1>v. portFile' \in [Projects -> Servers] /\ server' \in [Epochs -> [alive : BOOLEAN, ported : BOOLEAN]]
  BY <1>u, <1>t DEF ShellTypes
<1>o. e # None /\ e \in Servers /\ e \in Nat /\ None <= e BY ShellNumbers DEF None
<1>1. PICK k \in Threads :
        /\ boot' = [boot EXCEPT ![e] = k] /\ k.project = boot[e].project
        /\ \/ k.pc = "stopOrphan" /\ k.hand = e /\ slot' = slot
           \/ k.pc = "wait" /\ k.hand = None /\ slot' = e /\ slot = None /\ ~Stale(e)
  <2>1. CASE Stale(e)
    <3>1. [boot[e] EXCEPT !.pc = "stopOrphan", !.hand = e] \in Threads BY <1>t, <1>o DEF Threads, BootPCs
    <3>2. boot' = [boot EXCEPT ![e] = [boot[e] EXCEPT !.pc = "stopOrphan", !.hand = e]] /\ slot' = slot
      BY <2>1, <1>t DEF Store, Grab, Threads
    <3>3. [boot[e] EXCEPT !.pc = "stopOrphan", !.hand = e].pc = "stopOrphan"
          /\ [boot[e] EXCEPT !.pc = "stopOrphan", !.hand = e].hand = e
          /\ [boot[e] EXCEPT !.pc = "stopOrphan", !.hand = e].project = boot[e].project
      BY <1>t DEF Threads
    <3> QED BY <3>1, <3>2, <3>3
  <2>2. CASE ~Stale(e)
    <3>1. slot = None BY <2>2, <1>p, <1>t DEF Vacant
    <3>2. [boot[e] EXCEPT !.pc = "wait"] \in Threads BY <1>t DEF Threads, BootPCs
    <3>3. boot' = [boot EXCEPT ![e] = [boot[e] EXCEPT !.pc = "wait"]] /\ slot' = e
      BY <2>2, <3>1, <1>t DEF Store, Goto, Threads
    <3>4. [boot[e] EXCEPT !.pc = "wait"].pc = "wait" /\ [boot[e] EXCEPT !.pc = "wait"].hand = None
          /\ [boot[e] EXCEPT !.pc = "wait"].project = boot[e].project
      BY <1>t DEF Threads
    <3> QED BY <2>2, <3>1, <3>2, <3>3, <3>4
  <2> QED BY <2>1, <2>2
<1>b. boot'[e] = k /\ \A d \in Epochs : d # e => boot'[d] = boot[d] BY <1>t, <1>1
<1>2. k.pc \notin Early \cup {"store"} /\ k.pc # "none" /\ k.pc \notin FileAt /\ boot[e].pc # "none"
  BY <1>1, <1>p DEF Early, FileAt
<1>3. NoLeak'
  <2>1. ASSUME NEW s \in Epochs, Held(s) PROVE Held(s)'
    <3>0. s # None BY ShellNumbers
    <3>1. CASE slot = s BY <3>0, <3>1, <1>1 DEF Held
    <3>2. CASE quit.hand = s BY <3>2, <1>u DEF Held
    <3>3. CASE boot[s].pc = "store"
      <4>1. CASE s = e BY <4>1, <1>b, <1>1 DEF Held
      <4>2. CASE s # e BY <3>3, <4>2, <1>b DEF Held
      <4> QED BY <4>1, <4>2
    <3>4. ASSUME NEW d \in Epochs, boot[d].hand = s PROVE Held(s)'
      <4>1. d # e BY <3>0, <3>4, <1>t
      <4> QED BY <4>1, <3>4, <1>b DEF Held
    <3> QED BY <2>1, <3>1, <3>2, <3>3, <3>4 DEF Held
  <2> QED BY <2>1, <1>t, <1>u DEF NoLeak
<1>4. k.pc \in StopsAt \cup FileAt <=> k.hand # None
  <2>1. "stopOrphan" \in StopsAt /\ "wait" \notin StopsAt \cup FileAt BY DEF StopsAt, FileAt
  <2> QED BY <1>1, <1>o, <2>1
<1>5. k.hand <= e /\ (k.hand # None => k.hand = e) BY <1>1, <1>o
<1>6. Vacant(e)' BY <1>b, <1>1 DEF Vacant
<1>7. slot' = slot \/ (slot' = e /\ ~Stale(e) /\ k.pc \notin Early \cup {"store"}) BY <1>1, <1>2
<1>8. /\ \A s \in Epochs : server'[s].alive => server[s].alive
      /\ k.pc \in Early => ~server'[e].alive
      /\ k.pc \in Early \cup {"store"} => boot[e].pc \in Early
  BY <1>u, <1>2
<1>9. k \in Threads /\ boot' = [boot EXCEPT ![e] = k] /\ k.project = boot[e].project BY <1>1
<1> QED BY <1>p, <1>u, <1>v, <1>2, <1>3, <1>4, <1>5, <1>6, <1>7, <1>8, <1>9, ThreadMoves

LEMMA BootStepSlotted == ASSUME Slotted, NEW e \in Epochs, BootStep(e) PROVE Slotted'
<1>1. CASE Begin(e) \/ Reap(e)
  <2>1. CASE slot = None \/ Stale(e)
    <3>1. slot' = slot BY <1>1, <2>1 DEF Begin, Reap
    <3> QED BY <1>1, <2>1, <3>1, PlainSteps
  <2>2. CASE slot # None /\ ~Stale(e) BY <1>1, <2>2, TakingSteps
  <2> QED BY <2>1, <2>2
<1>2. CASE (StartMachine(e) \/ SpawnServerFails(e) \/ WaitPort(e) \/ MarkRunning(e) \/ Watch(e) \/ Fail(e))
           /\ ~(Begin(e) \/ Reap(e))
  <2>1. slot' = slot BY <1>2 DEF StartMachine, SpawnServerFails, WaitPort, MarkRunning, Watch, Fail
  <2> QED BY <1>2, <2>1, PlainSteps
<1> QED BY <1>1, <1>2, StopKillSlotted, StopFileSlotted, SpawnSlotted, StoreSlotted DEF BootStep

\* A new boot: every older one is stale from here on.
LEMMA BootSlotted ==
    ASSUME Slotted, NEW p \in Projects, Boot(p), active' \in Projects \cup {"none"},
           UNCHANGED <<slot, server, portFile, quit>>
    PROVE  Slotted'
<1> DEFINE n == epoch + 1
           k == [NoThread EXCEPT !.pc = "begin", !.project = p]
<1>t. /\ ShellTypes /\ boot \in [Epochs -> Threads] /\ NoLeak /\ Taken /\ epoch \in Nat /\ epoch < MaxBoots
      /\ epoch' = n
  BY ShellNumbers DEF Slotted, ShellTypes, Boot
<1>n. n \in Epochs /\ n \in Servers /\ n > epoch /\ n \in Nat /\ None <= n
  BY <1>t, BootAssumption DEF Epochs, Servers, None
<1>k. /\ k \in Threads /\ k.pc = "begin" /\ k.project = p /\ k.hand = None
      /\ boot' = [boot EXCEPT ![n] = k]
  BY <1>t, ShellNumbers DEF Boot, NoThread, Threads, BootPCs, Early
<1> HIDE DEF k, n
<1>b. boot'[n] = k /\ \A d \in Epochs : d # n => boot'[d] = boot[d] BY <1>t, <1>k, <1>n
<1>o. boot[n].pc = "none" /\ boot[n].hand = None /\ ~server[n].alive
  <2>1. Thread(n) /\ boot[n].pc = "none" BY <1>n DEF Slotted, Thread
  <2>2. "none" \notin StopsAt \cup FileAt /\ "none" \in Early BY DEF StopsAt, FileAt, Early
  <2> QED BY <2>1, <2>2 DEF Thread
<1>1. ShellTypes' BY <1>t, <1>k, <1>n DEF ShellTypes
<1>2. \A s : Stored(s) => s # n /\ s \in Epochs /\ boot'[s].pc \notin Early \cup {"store"}
  BY <1>b, <1>o DEF Stored, Early
<1>3. ASSUME NEW d \in Epochs PROVE Thread(d)'
  <2>0. Thread(d) /\ d \in Nat BY ShellNumbers DEF Slotted
  <2>1. CASE d = n
    <3>1. "begin" \notin StopsAt \cup FileAt BY DEF StopsAt, FileAt
    <3>2. k.pc \notin FileAt BY <3>1, <1>k
    <3>3. epoch' = d BY <2>1, <1>t
    <3> QED BY <2>0, <2>1, <3>1, <3>2, <3>3, <1>b, <1>k, <1>n, <1>o DEF Thread
  <2>2. CASE d # n
    <3>1. boot'[d] = boot[d] BY <2>2, <1>b
    <3>2. boot[d].hand # None
            => boot[d].hand \in Epochs /\ boot'[boot[d].hand].pc \notin Early \cup {"store"}
      BY <2>0, <1>2 DEF Thread
    <3>3. d > epoch' => d > epoch BY <2>0, <1>t, <1>n
    <3> QED BY <2>0, <3>1, <3>2, <3>3 DEF Thread, Stored
  <2> QED BY <2>1, <2>2
<1>4. ASSUME NEW d \in Epochs PROVE Vacant(d)'
  <2>1. CASE d = n BY <2>1, <1>b, <1>k DEF Vacant
  <2>2. CASE d # n
    <3>1. Stale(d)' BY <2>2, <1>t DEF Stale
    <3> QED BY <3>1 DEF Vacant
  <2> QED BY <2>1, <2>2
<1>5. Taken'
  <2>1. slot # None => slot \in Epochs /\ boot'[slot].pc \notin Early \cup {"store"} /\ slot <= n
    <3>1. slot \in Nat /\ (slot # None => slot <= epoch) BY <1>t, ShellNumbers DEF ShellTypes, Taken
    <3>2. slot # None => slot <= n BY <3>1, <1>n, <1>t
    <3> QED BY <3>2, <1>2, <1>t DEF Taken
  <2>2. quit.hand # None => quit.hand \in Epochs /\ boot'[quit.hand].pc \notin Early \cup {"store"}
    BY <1>2, <1>t DEF Taken
  <2> QED BY <2>1, <2>2, <1>t DEF Taken, Stored
<1>6. NoLeak'
  <2>1. \A s \in Epochs : Held(s) => Held(s)'
    <3> TAKE s \in Epochs
    <3>1. s # None BY ShellNumbers
    <3> QED BY <3>1, <1>b, <1>o, <1>n DEF Held
  <2> QED BY <2>1, <1>t DEF NoLeak
<1> QED BY <1>1, <1>3, <1>4, <1>5, <1>6 DEF Slotted

\* What a child does by itself: it writes its port, or it ends.
LEMMA ChildSlotted ==
    ASSUME Slotted, NEW s \in Epochs, WritePort(s) \/ Die(s)
    PROVE  Slotted'
<1>u. server[s].alive /\ UNCHANGED <<active, epoch, machine, slot, boot, quit>> BY DEF WritePort, Die
<1>t. ShellTypes /\ NoLeak /\ Taken BY DEF Slotted
<1>1. boot[s].pc # "none" /\ boot[s].project \in Projects
  <2>1. boot[s].pc # "none" BY <1>u DEF Slotted, Thread, Early
  <2> QED BY <2>1, AtWork
<1>2. /\ portFile' \in [Projects -> Servers] /\ server' \in [Epochs -> [alive : BOOLEAN, ported : BOOLEAN]]
      /\ \A d \in Epochs : server'[d].alive => server[d].alive
  <2>1. CASE Die(s) BY <2>1, <1>1, Killed DEF Die
  <2>2. CASE WritePort(s)
    <3>1. s \in Servers BY ShellNumbers
    <3>2. portFile' \in [Projects -> Servers] BY <2>2, <3>1, <1>1, <1>t DEF WritePort, ShellTypes
    <3>3. server' = [server EXCEPT ![s].ported = TRUE] BY <2>2 DEF WritePort
    <3> QED BY <3>2, <3>3, <1>t DEF ShellTypes
  <2> QED BY <2>1, <2>2
<1>3. ShellTypes' BY <1>2, <1>u, <1>t DEF ShellTypes
<1>4. ASSUME NEW d \in Epochs PROVE Thread(d)' /\ Vacant(d)'
  <2>1. Thread(d) /\ Vacant(d) BY DEF Slotted
  <2>2. boot[d].pc \in FileAt => ~server'[boot[d].hand].alive BY <2>1, <1>2 DEF Thread, Stored
  <2>3. Thread(d)' BY <2>1, <2>2, <1>2, <1>u DEF Thread, Stored
  <2> QED BY <2>1, <2>3, <1>u DEF Vacant, Stale
<1>5. Taken'
  <2>1. quit.pc = "file" => ~server'[quit.hand].alive BY <1>2, <1>t DEF Taken, Stored
  <2> QED BY <2>1, <1>u, <1>t DEF Taken, Stored
<1>6. NoLeak' BY <1>2, <1>u, <1>t DEF NoLeak, Held
<1> QED BY <1>3, <1>4, <1>5, <1>6 DEF Slotted

\* The quit: from its flag on every boot is stale, so nobody refills the slot.
LEMMA QuitSlotted == ASSUME Slotted, Quit PROVE Slotted'
<1>t. ShellTypes /\ NoLeak /\ Taken /\ slot \in Servers /\ quit \in Quits BY DEF Slotted, ShellTypes
<1>u. UNCHANGED <<active, epoch, boot>> /\ quit'.pc # "no"
  BY <1>t DEF Quit, QuitFlag, QuitTake, QuitKill, QuitFile, ExitShell, Quits
<1>h. quit.hand # None => quit.hand \in Epochs /\ Stored(quit.hand) BY <1>t DEF Taken, Stored
<1>1. /\ portFile' \in [Projects -> Servers] /\ server' \in [Epochs -> [alive : BOOLEAN, ported : BOOLEAN]]
      /\ \A d \in Epochs : server'[d].alive => server[d].alive
      /\ QuitKill => ~server'[quit.hand].alive
  <2>1. CASE QuitKill
    <3>1. quit.hand \in Epochs /\ Stored(quit.hand) BY <2>1, <1>h, <1>t DEF QuitKill, Taken
    <3>2. boot[quit.hand].pc # "none" BY <3>1 DEF Stored, Early
    <3> QED BY <2>1, <3>1, <3>2, Killed DEF QuitKill
  <2>2. CASE QuitFile
    <3>1. quit.hand \in Epochs /\ Stored(quit.hand) BY <2>2, <1>h, <1>t DEF QuitFile, Taken
    <3>2. boot[quit.hand].project \in Projects BY <3>1, AtWork DEF Stored, Early
    <3>3. portFile' \in [Projects -> Servers] BY <2>2, <3>2, <1>t, ShellNumbers DEF QuitFile, Unport, ShellTypes
    <3>4. server' = server /\ quit.pc = "file" BY <2>2 DEF QuitFile
    <3>5. ~QuitKill BY <3>4 DEF QuitKill
    <3> QED BY <3>3, <3>4, <3>5, <1>t DEF ShellTypes
  <2>3. CASE QuitFlag \/ QuitTake \/ ExitShell
    BY <2>3, <1>t DEF QuitFlag, QuitTake, QuitKill, ExitShell, ShellTypes
  <2> QED BY <2>1, <2>2, <2>3 DEF Quit
<1>2. Taken'
  <2>1. CASE QuitFlag BY <2>1, <1>t, <1>1, <1>u DEF QuitFlag, Taken, Stored, Quits
  <2>2. CASE QuitTake
    <3>1. slot' = None /\ quit' = [pc |-> IF slot = None THEN "exit" ELSE "kill", hand |-> slot]
      BY <2>2 DEF QuitTake
    <3> QED BY <3>1, <1>t, <1>u DEF Taken, Stored
  <2>3. CASE QuitKill
    <3>1. quit'.pc = "file" /\ quit'.hand = quit.hand /\ quit.pc = "kill" BY <2>3, <1>t DEF QuitKill, Quits
    <3>2. slot' = slot BY <2>3 DEF QuitKill
    <3>3. ~server'[quit.hand].alive BY <2>3, <1>1
    <3> QED BY <3>1, <3>2, <3>3, <1>t, <1>u DEF Taken, Stored
  <2>4. CASE QuitFile BY <2>4, <1>t, <1>u DEF QuitFile, Taken, Stored
  <2>5. CASE ExitShell BY <2>5, <1>t, <1>u DEF ExitShell, Taken, Stored, Quits
  <2> QED BY <2>1, <2>2, <2>3, <2>4, <2>5, <1>u DEF Quit
<1>3. ShellTypes'
  <2>1. slot' \in Servers /\ quit' \in Quits
    BY <1>t, ShellNumbers DEF Quit, QuitFlag, QuitTake, QuitKill, QuitFile, ExitShell, Quits
  <2> QED BY <2>1, <1>1, <1>u, <1>t DEF ShellTypes
<1>4. ASSUME NEW d \in Epochs PROVE Thread(d)' /\ Vacant(d)'
  <2>1. Thread(d) BY DEF Slotted
  <2>2. boot[d].pc \in FileAt => ~server'[boot[d].hand].alive BY <2>1, <1>1 DEF Thread, Stored
  <2>3. Thread(d)' BY <2>1, <2>2, <1>1, <1>u DEF Thread, Stored
  <2> QED BY <2>3, <1>u DEF Vacant, Stale
<1>5. NoLeak'
  <2> SUFFICES ASSUME quit'.pc # "gone", NEW s \in Epochs, server'[s].alive PROVE Held(s)' BY DEF NoLeak
  <2>1. Held(s) /\ s # None
    <3>1. quit.pc # "gone" BY DEF Quit, QuitFlag, QuitTake, QuitKill, QuitFile, ExitShell
    <3> QED BY <3>1, <1>1, <1>t, ShellNumbers DEF NoLeak
  <2>2. slot' = s \/ quit'.hand = s \/ (slot # s /\ quit.hand # s)
    <3>1. CASE QuitTake BY <3>1, <2>1, <1>t DEF QuitTake, Taken
    <3>2. CASE QuitFile
      <4>1. quit.hand # s BY <3>2, <1>t DEF QuitFile, Taken
      <4> QED BY <3>2, <4>1 DEF QuitFile
    <3>3. CASE QuitFlag \/ QuitKill \/ ExitShell
      <4>1. slot' = slot /\ quit'.hand = quit.hand BY <3>3, <1>t DEF QuitFlag, QuitKill, ExitShell, Quits
      <4> QED BY <4>1
    <3> QED BY <3>1, <3>2, <3>3 DEF Quit
  <2> QED BY <2>1, <2>2, <1>u DEF Held
<1> QED BY <1>2, <1>3, <1>4, <1>5 DEF Slotted

\* For any projects, boots and deaths: a boot never holds the server of a newer
\* one, the newest boot stores its server into an empty slot, and until the
\* shell exits every live server is in the slot or in the hands of a thread
\* that will store or stop it (boot.rs run_boot, server.rs, lib.rs stop_all).
THEOREM SlotSafeHolds == ShellSpec => []SlotSafe
<1>1. ASSUME Slotted, [ShellNext]_shellVars PROVE Slotted'
  <2>1. ASSUME NEW p \in Projects, Select(p) PROVE Slotted'
    <3>1. active' = p /\ p \in Projects /\ UNCHANGED <<slot, server, portFile, quit>> BY <2>1 DEF Select
    <3>2. CASE Boot(p)
      <4>1. active' \in Projects \cup {"none"} BY <3>1
      <4> QED BY <1>1, <3>1, <3>2, <4>1, BootSlotted
    <3>3. CASE UNCHANGED <<epoch, boot>>
      BY <1>1, <3>1, <3>3 DEF Slotted, ShellTypes, Thread, Vacant, Stale, Taken, Stored, NoLeak, Held
    <3> QED BY <2>1, <3>2, <3>3 DEF Select
  <2>2. CASE Reboot
    <3>1. active \in Projects BY <1>1, <2>2 DEF Reboot, Slotted, ShellTypes
    <3>2. Boot(active) /\ UNCHANGED <<active, slot, server, portFile, quit>> BY <2>2 DEF Reboot
    <3> QED BY <1>1, <3>1, <3>2, BootSlotted
  <2>3. ASSUME NEW e \in Epochs, BootStep(e) \/ WritePort(e) \/ Die(e) PROVE Slotted'
    BY <1>1, <2>3, BootStepSlotted, ChildSlotted
  <2>4. CASE Quit BY <1>1, <2>4, QuitSlotted
  <2>5. CASE UNCHANGED shellVars
    BY <1>1, <2>5 DEF shellVars, Slotted, ShellTypes, Thread, Vacant, Stale, Taken, Stored, NoLeak, Held
  <2> QED BY <1>1, <2>1, <2>2, <2>3, <2>4, <2>5 DEF ShellNext
<1>2. Slotted => SlotSafe
  BY DEF Slotted, SlotSafe, SlotGuarded, NewerNotReaped, NeverDisplaced, Thread, Vacant, At
<1> QED BY ShellInitSlotted, <1>1, <1>2, PTL DEF ShellSpec

-----------------------------------------------------------------------------
(* Adapter: the record of a structured turn                                *)

Events    == {"meta", "data"} \cup Endings
Envelopes == [seq : Nat, event : Events]
Reasons   == {"cancelled", "timeout"}
Children  == [alive : BOOLEAN, out : Seq(Lines), open : BOOLEAN, err : BOOLEAN, wrote : Nat]
Pumps     == [pc : {"none", "select", "send", "kill", "drain", "wait", "done"},
              back : {"select", "drain", "done"}, todo : Seq(Events), seq : Nat,
              last : Endings \cup {"none"}, eof : BOOLEAN, errEof : BOOLEAN,
              why : Reasons \cup {"none"}, outcome : Endings \cup {"none"}]
Phases    == {"completed", "failed", "timed_out", "cancelled", "none"}
Consumers == [pc : {"launch", "refused", "start", "recv", "ingest", "trip", "finish", "ended"},
              held : Seq(Envelopes), tripped : BOOLEAN, phase : Phases]
Statuses  == {"none", "starting", "running", "completed", "failed", "cancelled"}

TurnTypes ==
    /\ child \in Children /\ pump \in Pumps /\ consumer \in Consumers
    /\ chan \in Seq(Envelopes) /\ ledger \in Seq(Envelopes)
    /\ row \in [status : Statuses, key : Nat]

\* What was published, in its order: recorded, in the consumer's hands, or waiting.
Stream == ledger \o (consumer.held \o chan)

\* The events are numbered as they were sent, and the pump knows the last ending.
Numbered(s) == Len(s) = pump.seq /\ \A i \in 1 .. Len(s) : s[i].seq = i - 1

LastEnding(s, last) ==
    IF last = "none" THEN \A i \in 1 .. Len(s) : s[i].event \notin Endings
    ELSE \E i \in 1 .. Len(s) : s[i].event = last /\ \A j \in (i + 1) .. Len(s) : s[j].event \notin Endings

\* The pump leaves its loop for good only with the child dead and an ending to report.
Stopping == pump.pc = "drain" \/ (pump.pc = "send" /\ pump.back \in {"drain", "done"}) \/ pump.pc = "done"

Pumping ==
    /\ pump.pc = "none" <=> consumer.pc \in {"launch", "refused"}
    /\ pump.pc = "send" => pump.todo # <<>>
    /\ pump.pc = "send" /\ pump.back = "done" => Len(pump.todo) = 1 /\ Head(pump.todo) \in Endings
    /\ pump.pc \in {"kill", "drain"} \/ (pump.pc = "send" /\ pump.back = "drain") => pump.why \in Reasons
    /\ pump.pc = "done" => pump.outcome = pump.last /\ pump.last # "none"
    /\ Stopping => ~child.alive

\* What the consumer knows when it has stopped reading, and what it then says.
Consuming ==
    /\ IF consumer.pc = "ingest" THEN Len(consumer.held) = 1 ELSE consumer.held = <<>>
    /\ consumer.pc = "trip" => consumer.tripped
    /\ consumer.pc \in {"finish", "ended"} /\ ~consumer.tripped => chan = <<>> /\ pump.pc = "done"
    /\ Ended => /\ pump.pc = "done" /\ row.status = StatusOf(consumer.phase)
                /\ consumer.phase = IF consumer.tripped THEN "timed_out" ELSE PhaseOf(pump.outcome)

Told ==
    /\ TurnTypes /\ Numbered(Stream) /\ LastEnding(Stream, pump.last)
    /\ Pumping /\ Consuming /\ KeyIsFirstMeta

LEMMA TurnInitTold == Init => Told
<1> SUFFICES ASSUME Init PROVE Told OBVIOUS
<1>1. TurnTypes
  <2>1. child \in Children BY DEF Init, Children
  <2>2. pump \in Pumps BY DEF Init, Pumps
  <2>3. consumer \in Consumers BY DEF Init, Consumers, Phases
  <2> QED BY <2>1, <2>2, <2>3 DEF Init, TurnTypes, Statuses
<1>2. ledger = <<>> /\ chan = <<>> /\ consumer.held = <<>> /\ pump.seq = 0 /\ pump.last = "none" BY DEF Init
<1>3. Stream = <<>> BY <1>2 DEF Stream
<1>4. Numbered(Stream) /\ LastEnding(Stream, pump.last) BY <1>2, <1>3 DEF Numbered, LastEnding
<1>5. Pumping /\ Consuming BY DEF Init, Pumping, Consuming, Stopping, Ended
<1>6. KeyIsFirstMeta BY DEF Init, KeyIsFirstMeta
<1> QED BY <1>1, <1>4, <1>5, <1>6 DEF Told

LEMMA StreamTyped == ASSUME TurnTypes PROVE Stream \in Seq(Envelopes) /\ consumer.held \in Seq(Envelopes)
<1>1. consumer.held \in Seq(Envelopes) BY DEF TurnTypes, Consumers
<1>2. consumer.held \o chan \in Seq(Envelopes) BY <1>1, ConcatProperties DEF TurnTypes
<1> QED BY <1>1, <1>2, ConcatProperties DEF TurnTypes, Stream

\* What leaves the stream and the session's key as they are.
LEMMA StillTold ==
    ASSUME Told, UNCHANGED <<chan, ledger>>, consumer'.held = consumer.held,
           pump'.seq = pump.seq, pump'.last = pump.last, row'.key = row.key,
           TurnTypes', Pumping', Consuming'
    PROVE  Told'
<1>1. Stream' = Stream BY DEF Stream
<1>2. Numbered(Stream)' BY <1>1 DEF Told, Numbered
<1>3. LastEnding(Stream, pump.last)' BY <1>1 DEF Told, LastEnding
<1>4. KeyIsFirstMeta' BY DEF Told, KeyIsFirstMeta
<1> QED BY <1>2, <1>3, <1>4 DEF Told

\* A child that is dead stays dead, whatever its descendants write.
LEMMA ChildTold == ASSUME Told, ChildNext PROVE Told'
<1>t. TurnTypes /\ child \in Children /\ Pumping /\ Consuming BY DEF Told, TurnTypes
<1>1. UNCHANGED <<pump, chan, consumer, row, ledger>> BY DEF ChildNext, Write, ClosePipe, Exit
<1>2. child' \in Children /\ (child'.alive => child.alive)
  <2>1. ASSUME NEW line \in Lines, Write(line) PROVE child' \in Children /\ child'.alive = child.alive
    <3>1. Append(child.out, line) \in Seq(Lines) /\ child.wrote + 1 \in Nat BY <1>t DEF Children
    <3> QED BY <2>1, <3>1, <1>t DEF Write, Children
  <2>2. ASSUME NEW pipe \in {"open", "err"}, ClosePipe(pipe) PROVE child' \in Children /\ child'.alive = child.alive
    BY <2>2, <1>t DEF ClosePipe, Children
  <2>3. ASSUME NEW kept \in SUBSET {"open", "err"}, Exit(kept) PROVE child' \in Children /\ ~child'.alive
    BY <2>3, <1>t DEF Exit, Dead, Children
  <2> QED BY <2>1, <2>2, <2>3 DEF ChildNext
<1>3. TurnTypes' BY <1>t, <1>1, <1>2 DEF TurnTypes
<1>4. Pumping' BY <1>t, <1>1, <1>2 DEF Pumping, Stopping
<1>5. Consuming' BY <1>t, <1>1 DEF Consuming, Ended
<1> QED BY <1>1, <1>3, <1>4, <1>5, StillTold

LEMMA ParsedEvents == ASSUME NEW line \in Lines PROVE ParseLine(line) \in Seq(Events)
<1>1. /\ <<>> \in Seq(Events) /\ <<"meta">> \in Seq(Events) /\ <<"data">> \in Seq(Events)
      /\ <<"failed">> \in Seq(Events) /\ <<"data", "data">> \in Seq(Events)
      /\ <<"data", "completed">> \in Seq(Events)
  BY DEF Events, Endings
<1>2. /\ ClaudeEvents.init = <<"meta">> /\ ClaudeEvents.say = <<"data", "data">>
      /\ ClaudeEvents.done = <<"data", "completed">> /\ ClaudeEvents.fail = <<"failed">>
      /\ ClaudeEvents.junk = <<>>
  BY DEF ClaudeEvents
<1>3. /\ CodexEvents.init = <<"meta">> /\ CodexEvents.say = <<"data">>
      /\ CodexEvents.done = <<"data", "completed">> /\ CodexEvents.fail = <<"failed">>
      /\ CodexEvents.junk = <<"data">>
  BY DEF CodexEvents
<1>4. ClaudeEvents[line] \in Seq(Events) BY <1>1, <1>2 DEF Lines
<1>5. CodexEvents[line] \in Seq(Events) BY <1>1, <1>3 DEF Lines
<1> QED BY <1>4, <1>5 DEF ParseLine

LEMMA Publishing ==
    ASSUME TurnTypes, NEW events \in Seq(Events), NEW back \in {"select", "drain", "done"}
    PROVE  /\ Publish(events, back) \in Pumps
           /\ Publish(events, back).pc = IF events = <<>> THEN back ELSE "send"
           /\ Publish(events, back).todo = events /\ Publish(events, back).back = back
           /\ Publish(events, back).seq = pump.seq /\ Publish(events, back).last = pump.last
           /\ Publish(events, back).why = pump.why /\ Publish(events, back).outcome = pump.outcome
<1>1. pump \in Pumps BY DEF TurnTypes
<1> QED BY <1>1 DEF Publish, Pumps

\* A step of a pump at work that publishes nothing.
LEMMA PumpMoves ==
    ASSUME Told, pump.pc \notin {"none", "done"}, pump'.pc # "none", pump' \in Pumps,
           child' \in Children, child'.alive => child.alive,
           pump'.seq = pump.seq, pump'.last = pump.last, UNCHANGED <<chan, consumer, row, ledger>>,
           pump'.pc = "send" => pump'.todo # <<>>,
           pump'.pc = "send" /\ pump'.back = "done" => Len(pump'.todo) = 1 /\ Head(pump'.todo) \in Endings,
           pump'.pc \in {"kill", "drain"} \/ (pump'.pc = "send" /\ pump'.back = "drain") => pump'.why \in Reasons,
           pump'.pc = "done" => pump'.outcome = pump'.last /\ pump'.last # "none",
           Stopping' => ~child'.alive
    PROVE  Told'
<1>1. TurnTypes' BY DEF Told, TurnTypes
<1>2. Pumping' BY DEF Told, Pumping
<1>3. Consuming' BY DEF Told, Consuming, Ended
<1> QED BY <1>1, <1>2, <1>3, StillTold

\* The arms of the pump that take nothing from the child's standard output.
LEMMA ArmTold ==
    ASSUME Told,
           \/ ReadEof \/ ReadErrEof \/ CancelArm \/ TimeoutArm \/ AwaitExit
           \/ \E kept \in SUBSET {"open", "err"} : KillWithGrace(kept) \/ LeaveLoop(kept)
    PROVE  Told'
<1>t. TurnTypes /\ pump \in Pumps /\ child \in Children /\ Pumping BY DEF Told, TurnTypes
<1>d. ASSUME NEW kept PROVE Dead(kept) \in Children /\ ~Dead(kept).alive BY <1>t DEF Dead, Children
<1>1. CASE ReadEof \/ ReadErrEof \/ CancelArm \/ TimeoutArm \/ AwaitExit
  <2>1. pump.pc = "select" /\ UNCHANGED <<child, chan, consumer, row, ledger>>
    BY <1>1 DEF ReadEof, ReadErrEof, CancelArm, TimeoutArm, AwaitExit, Quiet, Selecting
  <2>2. /\ pump' \in Pumps /\ pump'.seq = pump.seq /\ pump'.last = pump.last
        /\ pump'.pc \in {"select", "kill", "wait"} /\ (pump'.pc = "kill" => pump'.why \in Reasons)
    BY <1>1, <2>1, <1>t DEF ReadEof, ReadErrEof, CancelArm, TimeoutArm, AwaitExit, Pumps, Reasons
  <2>3. ~Stopping' BY <2>2 DEF Stopping
  <2> QED BY <1>t, <2>1, <2>2, <2>3, PumpMoves
<1>2. ASSUME NEW kept \in SUBSET {"open", "err"}, KillWithGrace(kept) PROVE Told'
  <2>1. pump.pc = "kill" /\ UNCHANGED <<chan, consumer, row, ledger>> /\ pump.why \in Reasons
    BY <1>2, <1>t DEF KillWithGrace, Pumping
  <2>2. child' \in Children /\ ~child'.alive BY <1>2, <1>t, <1>d DEF KillWithGrace
  <2>3. pump' \in Pumps /\ pump'.seq = pump.seq /\ pump'.last = pump.last /\ pump'.pc = "drain" /\ pump'.why = pump.why
    BY <1>2, <1>t DEF KillWithGrace, Pumps
  <2> QED BY <2>1, <2>2, <2>3, PumpMoves
<1>3. ASSUME NEW kept \in SUBSET {"open", "err"}, LeaveLoop(kept) PROVE Told'
  <2>1. pump.pc = "select" /\ pump.last # "none" /\ UNCHANGED <<chan, consumer, row, ledger>>
    BY <1>3 DEF LeaveLoop
  <2>2. child' \in Children /\ ~child'.alive BY <1>3, <1>t, <1>d DEF LeaveLoop
  <2>3. /\ pump' \in Pumps /\ pump'.seq = pump.seq /\ pump'.last = pump.last /\ pump'.pc = "done"
        /\ pump'.outcome = pump.last
    BY <1>3, <1>t DEF LeaveLoop, Pumps
  <2> QED BY <2>1, <2>2, <2>3, PumpMoves
<1> QED BY <1>1, <1>2, <1>3

\* The arms that hand events to the sender: lines read, and the ending of a
\* turn that was stopped or whose child left without one.
LEMMA PublishTold == ASSUME Told, ReadLine \/ DrainLine \/ DrainEnds \/ ExitSeen PROVE Told'
<1>t. TurnTypes /\ pump \in Pumps /\ child \in Children /\ Pumping BY DEF Told, TurnTypes
<1>1. PICK events \in Seq(Events), back \in {"select", "drain", "done"} :
        /\ pump' = Publish(events, back) /\ child' \in Children /\ child'.alive = child.alive
        /\ pump.pc \in {"select", "drain", "wait"}
        /\ back = "drain" => pump.pc = "drain"
        /\ back = "done" => Len(events) = 1 /\ Head(events) \in Endings /\ events # <<>> /\ ~child.alive
  <2>1. ASSUME child.out # <<>>
        PROVE  /\ ParseLine(Head(child.out)) \in Seq(Events)
               /\ [child EXCEPT !.out = Tail(@)] \in Children
               /\ [child EXCEPT !.out = Tail(@)].alive = child.alive
    <3>1. Head(child.out) \in Lines /\ Tail(child.out) \in Seq(Lines) BY <2>1, <1>t DEF Children
    <3> QED BY <3>1, <1>t, ParsedEvents DEF Children
  <2>2. CASE ReadLine BY <2>1, <2>2 DEF ReadLine, Quiet, Selecting
  <2>3. CASE DrainLine BY <2>1, <2>3 DEF DrainLine
  <2>4. CASE DrainEnds
    <3>1. pump.why \in Endings /\ pump.why \in Events /\ ~child.alive /\ pump.pc = "drain"
      BY <2>4, <1>t DEF DrainEnds, Pumping, Stopping, Reasons, Endings, Events
    <3>2. <<pump.why>> \in Seq(Events) /\ Len(<<pump.why>>) = 1 /\ Head(<<pump.why>>) \in Endings /\ <<pump.why>> # <<>>
      BY <3>1
    <3> QED BY <2>4, <3>1, <3>2, <1>t DEF DrainEnds
  <2>5. CASE ExitSeen
    <3>1. <<"exit">> \in Seq(Events) /\ Len(<<"exit">>) = 1 /\ Head(<<"exit">>) \in Endings /\ <<"exit">> # <<>>
      BY DEF Events, Endings
    <3> QED BY <2>5, <3>1, <1>t DEF ExitSeen
  <2> QED BY <2>2, <2>3, <2>4, <2>5
<1>u. UNCHANGED <<chan, consumer, row, ledger>> BY DEF ReadLine, DrainLine, DrainEnds, ExitSeen
<1>2. /\ pump' \in Pumps /\ pump'.pc = (IF events = <<>> THEN back ELSE "send") /\ pump'.todo = events
      /\ pump'.back = back /\ pump'.seq = pump.seq /\ pump'.last = pump.last /\ pump'.why = pump.why
  BY <1>t, <1>1, Publishing
<1>3. back = "drain" => pump.why \in Reasons /\ ~child.alive BY <1>1, <1>t DEF Pumping, Stopping
<1>4. Stopping' => ~child'.alive BY <1>1, <1>2, <1>3 DEF Stopping
<1>5. pump'.pc \in {"select", "drain", "send"} /\ pump'.pc # "kill" BY <1>1, <1>2
<1>6. pump'.pc = "drain" => back = "drain" BY <1>1, <1>2
<1> QED BY <1>1, <1>u, <1>2, <1>3, <1>4, <1>5, <1>6, PumpMoves

LEMMA AppendInside ==
    ASSUME NEW S, NEW s \in Seq(S), NEW t \in Seq(S), NEW x \in S
    PROVE  s \o Append(t, x) = Append(s \o t, x)
<1>1. <<x>> \in Seq(S) /\ s \o t \in Seq(S) BY ConcatProperties
<1>2. Append(t, x) = t \o <<x>> /\ Append(s \o t, x) = (s \o t) \o <<x>> BY <1>1, AppendIsConcat
<1> QED BY <1>1, <1>2, ConcatAssociative

LEMMA EndingSent ==
    ASSUME NEW s \in Seq(Envelopes), NEW last \in Endings \cup {"none"}, NEW x \in Envelopes, LastEnding(s, last)
    PROVE  LastEnding(Append(s, x), IF x.event \in Endings THEN x.event ELSE last)
<1> DEFINE r == Append(s, x)
<1>1. /\ Len(s) \in Nat /\ Len(r) = Len(s) + 1 /\ r[Len(s) + 1] = x
      /\ \A i \in 1 .. Len(s) : r[i] = s[i]
  BY AppendProperties
<1> HIDE DEF r
<1>2. CASE x.event \in Endings
  <2>1. x.event # "none" BY <1>2 DEF Endings
  <2>2. Len(s) + 1 \in 1 .. Len(r) /\ \A j \in (Len(s) + 1 + 1) .. Len(r) : FALSE BY <1>1
  <2>3. LastEnding(r, x.event) BY <2>1, <2>2, <1>1 DEF LastEnding
  <2> QED BY <1>2, <2>3 DEF r
<1>3. CASE x.event \notin Endings
  <2>1. CASE last = "none"
    <3>1. \A i \in 1 .. Len(r) : r[i].event \notin Endings BY <1>1, <1>3, <2>1 DEF LastEnding
    <3> QED BY <1>3, <2>1, <3>1 DEF LastEnding, r
  <2>2. CASE last # "none"
    <3>1. PICK i \in 1 .. Len(s) : s[i].event = last /\ \A j \in (i + 1) .. Len(s) : s[j].event \notin Endings
      BY <2>2 DEF LastEnding
    <3>2. i \in 1 .. Len(r) /\ r[i].event = last BY <1>1, <3>1
    <3>3. \A j \in (i + 1) .. Len(r) : r[j].event \notin Endings
      <4> TAKE j \in (i + 1) .. Len(r)
      <4>1. j \in (i + 1) .. Len(s) \/ j = Len(s) + 1 BY <1>1
      <4>2. CASE j \in (i + 1) .. Len(s) BY <4>2, <1>1, <3>1
      <4>3. CASE j = Len(s) + 1 BY <4>3, <1>1, <1>3
      <4> QED BY <4>1, <4>2, <4>3
    <3>4. LastEnding(r, last) BY <2>2, <3>2, <3>3 DEF LastEnding
    <3> QED BY <1>3, <3>4 DEF r
  <2> QED BY <2>1, <2>2
<1> QED BY <1>2, <1>3

\* An event goes onto the channel: the stream grows by it and nothing else moves.
LEMMA SendTold == ASSUME Told, Send PROVE Told'
<1> DEFINE event == Head(pump.todo)
           x == [seq |-> pump.seq, event |-> event]
<1>t. TurnTypes /\ pump \in Pumps /\ child \in Children /\ Pumping /\ Consuming BY DEF Told, TurnTypes
<1>u. pump.pc = "send" /\ chan' = Append(chan, x) /\ pump' = Sent(event) /\ UNCHANGED <<child, consumer, row, ledger>>
  BY DEF Send
<1>e. /\ pump.todo # <<>> /\ event \in Events /\ Tail(pump.todo) \in Seq(Events)
      /\ Len(Tail(pump.todo)) = Len(pump.todo) - 1 /\ Len(pump.todo) \in Nat
  BY <1>t, <1>u, HeadTailProperties DEF Pumping, Pumps
<1>x. x \in Envelopes /\ x.seq = pump.seq /\ x.event = event BY <1>e, <1>t DEF Envelopes, Pumps
<1> HIDE DEF x, event
<1>s. Stream \in Seq(Envelopes) /\ Stream' = Append(Stream, x)
  <2> DEFINE h == consumer.held
  <2>1. h \in Seq(Envelopes) /\ chan \in Seq(Envelopes) /\ ledger \in Seq(Envelopes) /\ h \o chan \in Seq(Envelopes)
    BY <1>t, StreamTyped, ConcatProperties DEF TurnTypes
  <2>0. Stream = ledger \o (h \o chan) /\ Stream' = ledger \o (h \o Append(chan, x)) BY <1>u DEF Stream
  <2> HIDE DEF h
  <2>2. h \o Append(chan, x) = Append(h \o chan, x) BY <2>1, <1>x, AppendInside
  <2>3. ledger \o Append(h \o chan, x) = Append(ledger \o (h \o chan), x) BY <2>1, <1>x, AppendInside
  <2> QED BY <2>0, <2>2, <2>3, <1>t, StreamTyped
<1>p. /\ pump' \in Pumps /\ pump'.seq = pump.seq + 1 /\ pump'.why = pump.why /\ pump'.back = pump.back
      /\ pump'.last = IF event \in Endings THEN event ELSE pump.last
      /\ \/ pump'.pc = pump.back
         \/ pump'.pc = "send" /\ event \notin Endings /\ pump'.todo = Tail(pump.todo) /\ Len(pump.todo) # 1
      /\ pump'.pc = "done" /\ event \in Endings => pump'.outcome = event
  <2>1. CASE event \in Endings
    <3>1. pump' = [pump EXCEPT !.seq = @ + 1, !.todo = <<>>, !.pc = pump.back, !.last = event,
                               !.outcome = IF pump.back = "done" THEN event ELSE "none"]
      BY <2>1, <1>u DEF Sent
    <3>2. <<>> \in Seq(Events) /\ pump.seq + 1 \in Nat BY <1>t DEF Pumps
    <3> QED BY <2>1, <3>1, <3>2, <1>t DEF Pumps
  <2>2. CASE event \notin Endings
    <3>1. pump' = [pump EXCEPT !.seq = @ + 1, !.todo = Tail(@),
                               !.pc = IF Len(pump.todo) = 1 THEN pump.back ELSE "send"]
      BY <2>2, <1>u DEF Sent
    <3>2. pump.seq + 1 \in Nat BY <1>t DEF Pumps
    <3> QED BY <2>2, <3>1, <3>2, <1>t, <1>e DEF Pumps
  <2> QED BY <2>1, <2>2
<1>d. pump.back = "done" => event \in Endings BY <1>t, <1>u DEF Pumping, event
<1>1. TurnTypes'
  <2>1. chan' \in Seq(Envelopes) BY <1>t, <1>u, <1>x, AppendProperties DEF TurnTypes
  <2> QED BY <2>1, <1>p, <1>u, <1>t DEF TurnTypes
<1>2. Numbered(Stream)'
  <2>1. Len(Stream) = pump.seq /\ \A i \in 1 .. Len(Stream) : Stream[i].seq = i - 1 BY DEF Told, Numbered
  <2>2. Len(Stream') = Len(Stream) + 1 /\ Stream'[Len(Stream) + 1] = x /\ Len(Stream) \in Nat
        /\ \A i \in 1 .. Len(Stream) : Stream'[i] = Stream[i]
    BY <1>s, <1>x, AppendProperties
  <2>3. ASSUME NEW i \in 1 .. Len(Stream') PROVE Stream'[i].seq = i - 1
    <3>1. CASE i \in 1 .. Len(Stream) BY <3>1, <2>1, <2>2
    <3>2. CASE i = Len(Stream) + 1 BY <3>2, <2>1, <2>2, <1>x
    <3> QED BY <3>1, <3>2, <2>2
  <2> QED BY <2>1, <2>2, <2>3, <1>p DEF Numbered
<1>3. LastEnding(Stream, pump.last)'
  <2>1. LastEnding(Stream, pump.last) /\ pump.last \in Endings \cup {"none"} BY <1>t DEF Told, Pumps
  <2>2. LastEnding(Append(Stream, x), IF x.event \in Endings THEN x.event ELSE pump.last)
    BY <2>1, <1>s, <1>x, EndingSent
  <2> QED BY <2>2, <1>s, <1>x, <1>p DEF LastEnding
<1>4. Pumping'
  <2>1. pump'.pc # "none" BY <1>p, <1>t DEF Pumps
  <2>2. pump'.pc = "send" => pump'.todo = Tail(pump.todo) /\ Len(pump.todo) # 1 /\ event \notin Endings
    BY <1>p, <1>t DEF Pumps
  <2>3. pump'.pc = "send" => pump'.todo # <<>>
    <3>1. Len(pump.todo) # 0 BY <1>e, <1>t, EmptySeq DEF Pumps
    <3>2. pump'.pc = "send" => Len(Tail(pump.todo)) # 0 BY <2>2, <3>1, <1>e
    <3>3. Len(<<>>) = 0 OBVIOUS
    <3> QED BY <2>2, <3>2, <3>3
  <2>4. pump'.pc = "send" => pump'.back # "done" BY <2>2, <1>d, <1>p
  <2>5. pump'.pc # "send" => pump'.pc = pump.back BY <1>p
  <2>6. pump.back = "drain" => pump.why \in Reasons BY <1>t, <1>u DEF Pumping
  <2>7. Stopping' => ~child'.alive
    <3>1. Stopping' => pump.back \in {"drain", "done"} BY <1>p, <2>5 DEF Stopping
    <3> QED BY <3>1, <1>t, <1>u DEF Pumping, Stopping
  <2>8. pump'.pc = "done" => pump'.outcome = pump'.last /\ pump'.last # "none"
    <3>1. pump'.pc = "done" => event \in Endings BY <2>5, <1>d
    <3> QED BY <3>1, <1>p DEF Endings
  <2>9. pump'.pc # "kill" /\ pump'.pc \in {"drain"} => pump'.why \in Reasons BY <2>5, <2>6, <1>p
  <2>10. pump'.pc # "kill" BY <2>5, <1>t DEF Pumps
  <2>11. pump'.back = "drain" => pump'.why \in Reasons BY <2>6, <1>p
  <2> QED BY <2>1, <2>3, <2>4, <2>7, <2>8, <2>9, <2>10, <2>11, <1>t, <1>u DEF Pumping
<1>5. Consuming' BY <1>t, <1>u DEF Consuming, Ended
<1>6. KeyIsFirstMeta' BY <1>u DEF Told, KeyIsFirstMeta
<1> QED BY <1>1, <1>2, <1>3, <1>4, <1>5, <1>6 DEF Told

LEMMA PhasesOf ==
    /\ \A outcome \in Endings : PhaseOf(outcome) \in Phases
    /\ \A phase \in Phases : StatusOf(phase) \in Statuses
<1>1. ASSUME NEW outcome \in Endings PROVE PhaseOf(outcome) \in Phases
  BY DEF PhaseOf, Phases, Endings
<1>2. ASSUME NEW phase \in Phases PROVE StatusOf(phase) \in Statuses
  BY DEF StatusOf, Phases, Statuses
<1> QED BY <1>1, <1>2

\* What the consumer does between two events, and how it ends.
LEMMA ConsumerTold ==
    ASSUME Told, Start \/ StreamCloses \/ WatchdogTrips \/ WatchdogCancels \/ Finish
    PROVE  Told'
<1>t. /\ TurnTypes /\ consumer \in Consumers /\ row \in [status : Statuses, key : Nat] /\ pump \in Pumps
      /\ Pumping /\ Consuming
  BY DEF Told, TurnTypes
<1>u. UNCHANGED <<child, pump, chan, ledger>>
  BY DEF Start, StreamCloses, WatchdogTrips, WatchdogCancels, Finish
<1>1. CASE Start \/ StreamCloses \/ WatchdogTrips \/ WatchdogCancels
  <2>1. /\ consumer' \in Consumers /\ consumer'.held = consumer.held
        /\ consumer.pc \in {"start", "recv", "trip"} /\ consumer'.pc \in {"recv", "trip", "finish"}
        /\ consumer'.pc = "trip" => consumer'.tripped
    BY <1>1, <1>t DEF Start, StreamCloses, WatchdogTrips, WatchdogCancels, Consumers
  <2>2. row' \in [status : Statuses, key : Nat] /\ row'.key = row.key
    BY <1>1, <1>t DEF Start, StreamCloses, WatchdogTrips, WatchdogCancels, Statuses
  <2>3. TurnTypes' BY <1>t, <1>u, <2>1, <2>2 DEF TurnTypes
  <2>4. Pumping' BY <1>t, <1>u, <2>1 DEF Pumping, Stopping
  <2>5. consumer'.pc = "finish" /\ ~consumer'.tripped => chan = <<>> /\ pump.pc = "done"
    <3>1. CASE StreamCloses BY <3>1 DEF StreamCloses
    <3>2. CASE Start \/ WatchdogTrips BY <3>2, <1>t DEF Start, WatchdogTrips, Consumers
    <3>3. CASE WatchdogCancels
      <4>1. consumer.pc = "trip" => consumer.tripped BY <1>t DEF Consuming
      <4> QED BY <3>3, <4>1, <1>t DEF WatchdogCancels, Consumers
    <3> QED BY <1>1, <3>1, <3>2, <3>3
  <2>6. Consuming' BY <1>t, <1>u, <2>1, <2>5 DEF Consuming, Ended
  <2> QED BY <1>u, <2>1, <2>2, <2>3, <2>4, <2>6, StillTold
<1>2. CASE Finish
  <2> DEFINE phase == IF consumer.tripped THEN "timed_out" ELSE PhaseOf(pump.outcome)
  <2>1. pump.pc = "done" /\ consumer.pc = "finish" BY <1>2 DEF Finish
  <2>2. phase \in Phases /\ StatusOf(phase) \in Statuses
    <3>1. pump.outcome \in Endings BY <2>1, <1>t DEF Pumping, Pumps
    <3>2. phase \in Phases BY <3>1, PhasesOf DEF Phases
    <3> QED BY <3>2, PhasesOf
  <2>3. consumer' = [consumer EXCEPT !.pc = "ended", !.phase = phase] /\ row' = [row EXCEPT !.status = StatusOf(phase)]
    BY <1>2 DEF Finish
  <2>d. phase = IF consumer.tripped THEN "timed_out" ELSE PhaseOf(pump.outcome) OBVIOUS
  <2> HIDE DEF phase
  <2>4. /\ consumer' \in Consumers /\ consumer'.pc = "ended" /\ consumer'.phase = phase
        /\ consumer'.held = consumer.held /\ consumer'.tripped = consumer.tripped
        /\ row' \in [status : Statuses, key : Nat] /\ row'.key = row.key /\ row'.status = StatusOf(phase)
    BY <2>2, <2>3, <1>t DEF Consumers
  <2>5. TurnTypes' BY <1>t, <1>u, <2>4 DEF TurnTypes
  <2>6. Pumping' BY <1>t, <1>u, <2>1, <2>4 DEF Pumping, Stopping
  <2>7. Consuming' BY <1>t, <1>u, <2>1, <2>4, <2>d DEF Consuming, Ended, PhaseOf, StatusOf
  <2> QED BY <1>u, <2>4, <2>5, <2>6, <2>7, StillTold
<1> QED BY <1>1, <1>2

\* The launch, and what comes from outside.
LEMMA OutsideTold == ASSUME Told, Spawn \/ SpawnFails \/ Cancel \/ DeadlinePasses PROVE Told'
<1>t. /\ TurnTypes /\ consumer \in Consumers /\ row \in [status : Statuses, key : Nat] /\ pump \in Pumps
      /\ child \in Children /\ Pumping /\ Consuming
  BY DEF Told, TurnTypes
<1>1. CASE Cancel \/ DeadlinePasses
  <2>1. UNCHANGED <<child, pump, chan, consumer, row, ledger>> BY <1>1 DEF Cancel, DeadlinePasses
  <2>2. TurnTypes' /\ Pumping' /\ Consuming' BY <2>1, <1>t DEF TurnTypes, Pumping, Stopping, Consuming, Ended
  <2> QED BY <2>1, <2>2, StillTold
<1>2. CASE Spawn \/ SpawnFails
  <2>1. UNCHANGED <<chan, ledger>> /\ consumer.pc = "launch" /\ pump.pc = "none"
    BY <1>2, <1>t DEF Spawn, SpawnFails, Pumping
  <2>2. /\ consumer' \in Consumers /\ consumer'.held = consumer.held /\ consumer'.tripped = consumer.tripped
        /\ consumer'.pc \in {"start", "refused"} /\ (consumer'.pc = "refused" <=> pump'.pc = "none")
        /\ pump' \in Pumps /\ pump'.seq = pump.seq /\ pump'.last = pump.last /\ pump'.pc \in {"none", "select"}
        /\ child' \in Children
    BY <1>2, <2>1, <1>t DEF Spawn, SpawnFails, Consumers, Pumps, Children
  <2>3. row' \in [status : Statuses, key : Nat] /\ row'.key = row.key
    BY <1>2, <1>t DEF Spawn, SpawnFails, Statuses
  <2>4. TurnTypes' BY <1>t, <2>1, <2>2, <2>3 DEF TurnTypes
  <2>5. Pumping' BY <2>2 DEF Pumping, Stopping
  <2>6. Consuming' BY <1>t, <2>1, <2>2 DEF Consuming, Ended
  <2> QED BY <2>1, <2>2, <2>3, <2>4, <2>5, <2>6, StillTold
<1> QED BY <1>1, <1>2

LEMMA HeadAndTail == ASSUME NEW S, NEW s \in Seq(S), s # <<>> PROVE <<Head(s)>> \o Tail(s) = s
<1>1. Head(s) \in S /\ Tail(s) \in Seq(S) /\ <<Head(s)>> \in Seq(S) BY HeadTailProperties
<1>2. /\ Len(<<Head(s)>> \o Tail(s)) = Len(s) /\ Len(s) \in Nat
      /\ <<Head(s)>> \o Tail(s) \in Seq(S)
      /\ \A i \in 1 .. Len(s) : (<<Head(s)>> \o Tail(s))[i] = s[i]
  BY <1>1, HeadTailProperties
<1> QED BY <1>2, SeqEqual

\* An event changes hands; the stream is the same.
LEMMA RecvTold == ASSUME Told, Recv PROVE Told'
<1>t. /\ TurnTypes /\ consumer \in Consumers /\ Pumping /\ Consuming /\ chan \in Seq(Envelopes)
  BY DEF Told, TurnTypes
<1>u. /\ UNCHANGED <<child, pump, row, ledger>> /\ consumer.pc = "recv" /\ chan # <<>> /\ chan' = Tail(chan)
      /\ consumer' = [consumer EXCEPT !.pc = "ingest", !.held = <<Head(chan)>>]
  BY DEF Recv
<1>h. Head(chan) \in Envelopes /\ Tail(chan) \in Seq(Envelopes) /\ <<Head(chan)>> \in Seq(Envelopes)
  BY <1>t, <1>u, HeadTailProperties
<1>c. consumer' \in Consumers /\ consumer'.pc = "ingest" /\ consumer'.held = <<Head(chan)>>
  BY <1>t, <1>u, <1>h DEF Consumers
<1>s. Stream' = Stream
  <2>1. consumer.held = <<>> BY <1>t, <1>u DEF Consuming
  <2>2. <<>> \o chan = chan /\ <<Head(chan)>> \o Tail(chan) = chan
    BY <1>t, <1>u, HeadAndTail, ConcatEmptySeq
  <2> QED BY <2>1, <2>2, <1>u, <1>c DEF Stream
<1>1. TurnTypes' BY <1>t, <1>u, <1>h, <1>c DEF TurnTypes
<1>2. Numbered(Stream)' BY <1>s, <1>u DEF Told, Numbered
<1>3. LastEnding(Stream, pump.last)' BY <1>s, <1>u DEF Told, LastEnding
<1>4. Pumping' BY <1>t, <1>u, <1>c DEF Pumping, Stopping
<1>5. Consuming'
  <2>1. Len(<<Head(chan)>>) = 1 OBVIOUS
  <2> QED BY <2>1, <1>c DEF Consuming, Ended
<1>6. KeyIsFirstMeta' BY <1>u DEF Told, KeyIsFirstMeta
<1> QED BY <1>1, <1>2, <1>3, <1>4, <1>5, <1>6 DEF Told

\* The event in hand gets its row, and the first session it names its key.
LEMMA IngestTold == ASSUME Told, Ingest PROVE Told'
<1> DEFINE x == consumer.held[1]
           n == Len(ledger)
<1>t. /\ TurnTypes /\ consumer \in Consumers /\ Pumping /\ Consuming /\ row \in [status : Statuses, key : Nat]
      /\ chan \in Seq(Envelopes) /\ ledger \in Seq(Envelopes) /\ n \in Nat
  BY DEF Told, TurnTypes
<1>x. x \in Envelopes /\ consumer.held = <<x>>
  <2>1. consumer.held \in Seq(Envelopes) /\ Len(consumer.held) = 1
    BY <1>t, StreamTyped DEF Consuming, Ingest
  <2>2. x \in Envelopes BY <2>1, ElementOfSeq
  <2>3. <<x>> \in Seq(Envelopes) /\ Len(<<x>>) = 1 /\ <<x>>[1] = consumer.held[1] BY <2>2
  <2>4. \A i \in 1 .. 1 : i = 1 OBVIOUS
  <2> QED BY <2>1, <2>2, <2>3, <2>4, SeqEqual
<1>u. /\ UNCHANGED <<child, pump, chan>> /\ consumer.pc = "ingest" /\ ledger' = Append(ledger, x)
      /\ row' = [row EXCEPT !.key = IF x.event = "meta" /\ @ = 0 THEN x.seq + 1 ELSE @]
      /\ consumer' = [consumer EXCEPT !.pc = "recv", !.held = <<>>]
  BY DEF Ingest
<1> HIDE DEF x
<1>l. /\ ledger' \in Seq(Envelopes) /\ Len(ledger') = n + 1 /\ ledger'[n + 1] = x
      /\ DOMAIN ledger' = 1 .. (n + 1) /\ DOMAIN ledger = 1 .. n
      /\ \A i \in 1 .. n : ledger'[i] = ledger[i]
  BY <1>t, <1>x, <1>u, AppendProperties, LenProperties
<1>c. consumer' \in Consumers /\ consumer'.pc = "recv" /\ consumer'.held = <<>>
  <2>1. <<>> \in Seq(Envelopes) BY EmptySeq
  <2> QED BY <1>t, <1>u, <2>1 DEF Consumers
<1>s. Stream' = Stream /\ Stream = ledger \o (<<x>> \o chan) /\ Stream \in Seq(Envelopes)
  <2>1. <<x>> \in Seq(Envelopes) /\ <<>> \o chan = chan BY <1>x, <1>t, ConcatEmptySeq
  <2>2. ledger' = ledger \o <<x>> BY <1>t, <1>x, <1>u, AppendIsConcat
  <2>3. (ledger \o <<x>>) \o chan = ledger \o (<<x>> \o chan) BY <1>t, <2>1, ConcatAssociative
  <2> QED BY <2>1, <2>2, <2>3, <1>x, <1>u, <1>c, <1>t, StreamTyped DEF Stream
<1>q. x.seq = n
  <2>1. <<x>> \in Seq(Envelopes) /\ <<x>> \o chan \in Seq(Envelopes) /\ Len(<<x>> \o chan) = 1 + Len(chan)
        /\ Len(chan) \in Nat /\ (<<x>> \o chan)[1] = x
    <3>1. <<x>> \in Seq(Envelopes) /\ Len(<<x>>) = 1 /\ <<x>>[1] = x /\ Len(chan) \in Nat BY <1>x, <1>t
    <3> QED BY <3>1, <1>t, ConcatProperties
  <2>2. Len(Stream) = n + (1 + Len(chan)) /\ Stream[n + 1] = x
    <3>1. n + 1 \in 1 .. (n + (1 + Len(chan))) /\ ~(n + 1 <= n) /\ (n + 1) - n = 1 BY <1>t, <2>1
    <3> QED BY <1>s, <1>t, <2>1, <3>1, ConcatProperties
  <2>3. Stream[n + 1].seq = (n + 1) - 1 BY <1>t, <2>1, <2>2 DEF Told, Numbered
  <2> QED BY <2>2, <2>3, <1>t
<1>r. /\ row' \in [status : Statuses, key : Nat] /\ row'.status = row.status
      /\ row'.key = IF x.event = "meta" /\ row.key = 0 THEN n + 1 ELSE row.key
  <2> DEFINE k == IF x.event = "meta" /\ row.key = 0 THEN n + 1 ELSE row.key
  <2>1. k \in Nat BY <1>t
  <2>2. row' = [row EXCEPT !.key = k] BY <1>u, <1>q
  <2>3. k = IF x.event = "meta" /\ row.key = 0 THEN n + 1 ELSE row.key OBVIOUS
  <2> HIDE DEF k
  <2> QED BY <1>t, <2>1, <2>2, <2>3
<1>1. TurnTypes' BY <1>t, <1>u, <1>l, <1>c, <1>r DEF TurnTypes
<1>2. Numbered(Stream)' BY <1>s, <1>u DEF Told, Numbered
<1>3. LastEnding(Stream, pump.last)' BY <1>s, <1>u DEF Told, LastEnding
<1>4. Pumping' BY <1>t, <1>u, <1>c DEF Pumping, Stopping
<1>5. Consuming' BY <1>c DEF Consuming, Ended
<1>6. KeyIsFirstMeta'
  <2>0. KeyIsFirstMeta BY DEF Told
  <2>1. CASE row.key = 0 /\ x.event = "meta"
    <3>1. \A i \in 1 .. n : ledger[i].event # "meta" BY <2>0, <2>1, <1>l, <1>t DEF KeyIsFirstMeta
    <3>2. row'.key = n + 1 /\ n + 1 \in DOMAIN ledger' /\ (n + 1) - 1 = n BY <2>1, <1>r, <1>l, <1>t
    <3> QED BY <3>1, <3>2, <2>1, <1>l DEF KeyIsFirstMeta
  <2>2. CASE row.key = 0 /\ x.event # "meta"
    <3>1. \A i \in 1 .. n : ledger[i].event # "meta" BY <2>0, <2>2, <1>l, <1>t DEF KeyIsFirstMeta
    <3>2. \A i \in 1 .. (n + 1) : i \in 1 .. n \/ i = n + 1 BY <1>t
    <3> QED BY <3>1, <3>2, <2>2, <1>l, <1>r DEF KeyIsFirstMeta
  <2>3. CASE row.key # 0
    <3>1. row.key \in 1 .. n /\ ledger[row.key].event = "meta" /\ \A i \in 1 .. (row.key - 1) : ledger[i].event # "meta"
      BY <2>0, <2>3, <1>l DEF KeyIsFirstMeta
    <3>2. row.key \in 1 .. (n + 1) /\ \A i \in 1 .. (row.key - 1) : i \in 1 .. n BY <3>1, <1>t
    <3>3. row'.key = row.key BY <2>3, <1>r
    <3> QED BY <3>1, <3>2, <3>3, <1>l DEF KeyIsFirstMeta
  <2> QED BY <2>1, <2>2, <2>3
<1> QED BY <1>1, <1>2, <1>3, <1>4, <1>5, <1>6 DEF Told

\* For any channel, any child and any number of lines: the rows of a turn are
\* the events as they were sent, none left out; its row keeps the first session
\* the agent named; and an ended turn has a dead child and is marked with the
\* last ending recorded, unless the watchdog stopped the reading (structured.rs
\* consume and map_outcome, the pumps of claude.rs and codex.rs).
THEOREM RecordTellsTheTurnHolds == Spec => []RecordTellsTheTurn
<1>1. ASSUME Told, [Next]_vars PROVE Told'
  <2>1. CASE UNCHANGED vars
    <3>1. UNCHANGED <<child, pump, chan, consumer, row, ledger>> BY <2>1 DEF vars
    <3>2. TurnTypes' /\ Pumping' /\ Consuming'
      BY <1>1, <3>1 DEF Told, TurnTypes, Pumping, Stopping, Consuming, Ended
    <3> QED BY <1>1, <3>1, <3>2, StillTold
  <2>2. CASE PumpNext BY <1>1, <2>2, ArmTold, PublishTold, SendTold DEF PumpNext
  <2>3. CASE ConsumerNext BY <1>1, <2>3, ConsumerTold, RecvTold, IngestTold DEF ConsumerNext
  <2> QED BY <1>1, <2>1, <2>2, <2>3, ChildTold, OutsideTold DEF Next
<1>2. ASSUME Told PROVE RecordTellsTheTurn
  <2>t. /\ ledger \in Seq(Envelopes) /\ chan \in Seq(Envelopes) /\ consumer.held \in Seq(Envelopes)
        /\ Pumping /\ Consuming /\ Numbered(Stream) /\ LastEnding(Stream, pump.last)
    BY <1>2, StreamTyped DEF Told, TurnTypes
  <2>d. DOMAIN ledger = 1 .. Len(ledger) /\ Len(ledger) \in Nat BY <2>t
  <2>1. RowsFollowStream
    <3>1. consumer.held \o chan \in Seq(Envelopes) BY <2>t, ConcatProperties
    <3>2. Len(consumer.held \o chan) \in Nat BY <3>1
    <3>3. Len(Stream) = Len(ledger) + Len(consumer.held \o chan)
          /\ \A i \in 1 .. Len(ledger) : i \in 1 .. Len(Stream) /\ Stream[i] = ledger[i]
      BY <2>t, <2>d, <3>1, <3>2, ConcatProperties DEF Stream
    <3> QED BY <2>t, <2>d, <3>3 DEF RowsFollowStream, Numbered
  <2>2. ASSUME Ended
        PROVE  /\ ~child.alive /\ row.status = StatusOf(consumer.phase)
               /\ consumer.tripped => consumer.phase = "timed_out"
               /\ ~consumer.tripped => Len(ledger) = pump.seq /\ EndingIsLast(consumer.phase)
    <3>1. pump.pc = "done" /\ row.status = StatusOf(consumer.phase)
          /\ consumer.phase = (IF consumer.tripped THEN "timed_out" ELSE PhaseOf(pump.outcome))
      BY <2>t, <2>2 DEF Consuming
    <3>2. ~child.alive /\ pump.outcome = pump.last /\ pump.last # "none" BY <2>t, <3>1 DEF Pumping, Stopping
    <3>3. ASSUME ~consumer.tripped PROVE Len(ledger) = pump.seq /\ EndingIsLast(consumer.phase)
      <4>1. chan = <<>> /\ consumer.held = <<>> BY <2>t, <2>2, <3>3 DEF Consuming, Ended
      <4>2. Stream = ledger BY <2>t, <4>1, ConcatEmptySeq DEF Stream
      <4>3. PICK i \in 1 .. Len(ledger) :
              ledger[i].event = pump.last /\ \A j \in (i + 1) .. Len(ledger) : ledger[j].event \notin Endings
        BY <2>t, <3>2, <4>2 DEF LastEnding
      <4>4. pump.last \in Endings BY <1>2, <3>2 DEF Told, TurnTypes, Pumps
      <4>5. EndingIsLast(consumer.phase) BY <2>d, <3>1, <3>2, <3>3, <4>3, <4>4 DEF EndingIsLast
      <4> QED BY <2>t, <4>2, <4>5 DEF Numbered
    <3> QED BY <3>1, <3>2, <3>3
  <2>3. KeyIsFirstMeta BY <1>2 DEF Told
  <2> QED BY <2>1, <2>2, <2>3 DEF RecordTellsTheTurn
<1> QED BY TurnInitTold, <1>1, <1>2, PTL DEF Spec
=============================================================================
