------------------------------ MODULE ServoCall ------------------------------
(***************************************************************************)
(* What a command on a servo's serial line promises its caller, whatever   *)
(* the line loses, delays or repeats: a call returns success only if the   *)
(* device has carried out that very command since the call began.  A call  *)
(* that gives up tells nothing.                                            *)
(***************************************************************************)
CONSTANTS
    Command,    \* the commands a driver may issue
    NoCommand   \* no call in progress

VARIABLES
    call,       \* the command in progress, or NoCommand
    done,       \* has the device carried it out since the call began?
    result      \* what the last call returned: "ok" or "failed"

callVars == <<call, done, result>>

Init == call = NoCommand /\ done = FALSE /\ result = "failed"

Start == /\ call = NoCommand
         /\ call' \in Command
         /\ done' = FALSE
         /\ UNCHANGED result

Execute == /\ call # NoCommand
           /\ done' = TRUE
           /\ UNCHANGED <<call, result>>

Return(rc) == /\ call # NoCommand
              /\ call' = NoCommand
              /\ done' = FALSE
              /\ result' = rc

Next == \/ Start
        \/ Execute
        \/ done /\ Return("ok")
        \/ Return("failed")

Spec == Init /\ [][Next]_callVars
=============================================================================
