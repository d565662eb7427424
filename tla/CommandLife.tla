---------------------------- MODULE CommandLife ----------------------------
(***************************************************************************)
(* What the server promises about the commands of one device, however it   *)
(* gets them there: the stage at which it shows each command, next to what *)
(* has become of the command on the device.  A command is sent once and is *)
(* never waiting again; it is shown at work or over only on the device's   *)
(* word, on what the device shows of itself, or as given up.               *)
(*                                                                         *)
(* One check-in or one report may move several commands, each by a move of *)
(* its own.                                                                *)
(***************************************************************************)

CONSTANTS
    Commands,
    AppInstalls,   \* those whose app a check-in lists once it is installed
    Reboots,       \* those a later boot answers
    Watched        \* those given up when nothing is heard of them

VARIABLES
    stage,    \* what the server shows of each command
    device,   \* what has become of it on the device
    app       \* the app the installs are about is there

vars == <<stage, device, app>>

Ends   == {"done", "failed"}
Stages == {"waiting", "sent", "working", "withdrawn"} \cup Ends

Becomes(c, s) == stage'[c] = s

\* The first hand-out of the command, or the receipt that overtakes its record.
Send(c) == stage[c] = "waiting" /\ Becomes(c, "sent")

\* The device reports that it is at work.
Hear(c) == /\ device[c] # "away" /\ stage[c] \notin Ends
           /\ Becomes(c, "working")

\* The device reports how it ended.
Conclude(c) == /\ device[c] \in Ends /\ stage[c] \notin Ends
               /\ Becomes(c, device[c])

\* An operator withdraws it.
Withdraw(c) == /\ stage[c] \notin Ends
               /\ Becomes(c, "withdrawn")

\* A check-in shows the app, even of an install held to have failed.
SeeApp(c) == /\ c \in AppInstalls /\ app
             /\ Becomes(c, "done")

\* A check-in shows a later boot.
SeeBoot(c) == /\ c \in Reboots /\ stage[c] = "sent"
              /\ Becomes(c, "done")

\* Nothing was heard for too long.
GiveUp(c) == /\ c \in Watched /\ stage[c] \in {"sent", "working"}
             /\ Becomes(c, "failed")

Shows(c) == \/ stage'[c] = stage[c]
            \/ Send(c) \/ Hear(c) \/ Conclude(c) \/ Withdraw(c)
            \/ SeeApp(c) \/ SeeBoot(c) \/ GiveUp(c)

\* On the device a command arrives once and ends once.
Happens(c) == \/ device'[c] = device[c]
              \/ device[c] = "away" /\ device'[c] = "has"
              \/ device[c] = "has" /\ device'[c] \in Ends

Init == /\ stage = [c \in Commands |-> "waiting"]
        /\ device = [c \in Commands |-> "away"]
        /\ app \in BOOLEAN

Next == /\ \A c \in Commands : Shows(c) /\ Happens(c)
        /\ app => app'

Spec == Init /\ [][Next]_vars
=============================================================================
