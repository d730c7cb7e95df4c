---------------------------- MODULE CommandService ----------------------------
(***************************************************************************)
(* What the command queue promises to the window and to the web page,      *)
(* which post to it from their own threads: a command that was posted is   *)
(* carried out once, in the order of posting, and only while the           *)
(* acquisition is Running or Stopping.  The channel changes by a command's *)
(* being carried out, and otherwise only where the acquisition is not      *)
(* Running.  A command may fail, and is not tried again.                   *)
(***************************************************************************)
EXTENDS Sequences

CONSTANTS Commands,   \* records with a field op; those with op "channel" a field ch
          Channels, States

VARIABLES state,      \* of the acquisition, as everybody reads it
          pending,    \* commands not yet carried out, the oldest first
          channel     \* the channel in use

serviceVars == <<state, pending, channel>>

Init == state = "Stopped" /\ pending = << >> /\ channel \in Channels

Post == /\ \E cmd \in Commands : pending' = Append(pending, cmd)
        /\ UNCHANGED <<state, channel>>

CarryOut == /\ state \in {"Running", "Stopping"} /\ pending # << >>
            /\ pending' = Tail(pending)
            /\ \/ Head(pending).op = "channel" /\ channel' = Head(pending).ch
               \/ UNCHANGED channel
            /\ UNCHANGED state

Choose == /\ state # "Running"
          /\ channel' \in Channels
          /\ UNCHANGED <<state, pending>>

ChangeState == /\ state' \in States
               /\ UNCHANGED <<pending, channel>>

Next == Post \/ CarryOut \/ Choose \/ ChangeState

Spec == Init /\ [][Next]_serviceVars
=============================================================================
