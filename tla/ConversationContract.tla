------------------------- MODULE ConversationContract -------------------------
(***************************************************************************)
(* What a reader of a chat conversation relies on, whatever the runner     *)
(* does: the status of each turn (turns), its event log (log), and what    *)
(* each viewer of the event stream has been shown (shown), as positions in *)
(* the log of the turn it watches.                                         *)
(***************************************************************************)
EXTENDS Integers, Sequences

CONSTANTS Turns, Viewers, TurnTerminal, EndKinds

VARIABLES turns, log, watched, shown

vars == <<turns, log, watched, shown>>

Ended(t) == \E i \in 1 .. Len(log[t]) : log[t][i] \in EndKinds

Init ==
    /\ turns = [t \in Turns |-> "absent"] /\ log = [t \in Turns |-> <<>>]
    /\ watched \in [Viewers -> Turns] /\ shown = [v \in Viewers |-> <<>>]

Begin(t) ==
    /\ turns[t] = "absent" /\ turns' = [turns EXCEPT ![t] = "pending"]
    /\ UNCHANGED <<log, watched, shown>>

\* A turn streams only before its first event, and settles any number of times.
Mark(t) ==
    /\ turns[t] # "absent"
    /\ \E s \in {"streaming"} \cup TurnTerminal :
          /\ s = "streaming" => log[t] = <<>>
          /\ turns' = [turns EXCEPT ![t] = s]
    /\ UNCHANGED <<log, watched, shown>>

\* An event that ends the turn is on record only after the row says so.
Record(t, k) ==
    /\ k \in EndKinds => turns[t] \in TurnTerminal
    /\ k \notin EndKinds => ~Ended(t)
    /\ turns[t] \notin {"absent", "pending"}
    /\ log' = [log EXCEPT ![t] = Append(@, k)]
    /\ UNCHANGED <<turns, watched, shown>>

\* A viewer is shown recorded events only, in order and without a hole.  The
\* first one may be missed.
Show(v) ==
    /\ UNCHANGED <<turns, log, watched>>
    /\ \E n \in 1 .. Len(log[watched[v]]) :
          LET from == IF shown[v] = <<>> THEN {0, 1} ELSE {shown[v][Len(shown[v])] + 1} IN
          \E f \in from :
             shown' = [shown EXCEPT ![v] = @ \o [i \in 1 .. n - f |-> f + i - 1]]

\* A viewer that has been shown nothing may turn to another turn.
Watch(v) ==
    /\ shown[v] = <<>> /\ \E t \in Turns : watched' = [watched EXCEPT ![v] = t]
    /\ UNCHANGED <<turns, log, shown>>

Next ==
    \/ \E t \in Turns : Begin(t) \/ Mark(t) \/ \E k \in EndKinds \cup {"data"} : Record(t, k)
    \/ \E v \in Viewers : Show(v) \/ Watch(v)

Spec == Init /\ [][Next]_vars
=============================================================================
