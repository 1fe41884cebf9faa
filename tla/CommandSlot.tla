----------------------------- MODULE CommandSlot -----------------------------
(***************************************************************************)
(* What the command serialiser promises, without its mutex, its types and   *)
(* its contexts: one operation at a time is inside; whoever asks tells the  *)
(* one inside to stop; a watcher never asks while a user command is there;  *)
(* a user command gives way to user commands only; work that is left        *)
(* behind was told to stop, or VS Code lost its task.                       *)
(***************************************************************************)
EXTENDS FiniteSets

CONSTANTS Users, Watchers

Ops == Users \cup Watchers

VARIABLES
    phase,    \* idle, waiting, inside or over
    told,     \* the operations that were told to stop
    working,  \* the operations whose work has begun and not ended
    lost      \* user commands whose task VS Code refused to start

vars == <<phase, told, working, lost>>

Init ==
    /\ phase = [op \in Ops |-> "idle"]
    /\ told = {} /\ working = {} /\ lost = {}

In(p) == {op \in Ops : phase[op] = p}
UserIsThere == Users \cap (In("waiting") \cup In("inside")) # {}

Moves(op, from, to) ==
    /\ phase[op] = from
    /\ phase' = [phase EXCEPT ![op] = to]

\* Whoever is inside learns that somebody waits.
Ask(op) ==
    /\ Moves(op, "idle", "waiting")
    /\ op \in Watchers => ~UserIsThere
    /\ told' = told \cup In("inside")
    /\ UNCHANGED <<working, lost>>

Refuse(w) ==
    /\ UserIsThere
    /\ Moves(w, "idle", "over")
    /\ UNCHANGED <<told, working, lost>>

Enter(op) ==
    /\ In("inside") = {}
    /\ Moves(op, "waiting", "inside")
    /\ working' \in {working, working \cup {op}}
    /\ UNCHANGED <<told, lost>>

Drop(op) ==
    /\ \E newer \in In("waiting") \ {op} : op \in Users => newer \in Users
    /\ Moves(op, "waiting", "over")
    /\ UNCHANGED <<told, working, lost>>

Begin(op) ==
    /\ phase[op] = "inside" /\ op \notin working
    /\ working' = working \cup {op}
    /\ UNCHANGED <<phase, told, lost>>

End(op) ==
    /\ op \in working
    /\ working' = working \ {op}
    /\ UNCHANGED <<phase, told, lost>>

Tell(op) ==
    /\ phase[op] \in {"inside", "over"}
    /\ told' = told \cup {op}
    /\ UNCHANGED <<phase, working, lost>>

\* Work that goes on was told to stop, or is told now; or it is that of a user
\* command and nobody will tell it.
Leave(op) ==
    /\ Moves(op, "inside", "over")
    /\ told' \in {told, told \cup {op}}
    /\ lost' \in {lost, lost \cup ({op} \cap Users)}
    /\ op \in working => op \in told' \cup lost'
    /\ UNCHANGED working

Next ==
    \/ \E w \in Watchers : Refuse(w)
    \/ \E op \in Ops :
         \/ Ask(op) \/ Enter(op) \/ Drop(op)
         \/ Begin(op) \/ End(op) \/ Tell(op) \/ Leave(op)

Spec == Init /\ [][Next]_vars

=============================================================================
