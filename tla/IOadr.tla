-------------------------------- MODULE IOadr --------------------------------
(***************************************************************************)
(* The driver of an IOADR8x board (art_servo/src/ioadr): its relays and    *)
(* the requests to set them.  One board switches the lamps and the lasers, *)
(* a second one the transmission.                                          *)
(*                                                                         *)
(* Requests come through a queue of one message.  A cycle forgets what the *)
(* last one asked for, takes the queued request, reads the relays and then *)
(* writes the new ones; an error on the way loses the request.             *)
(***************************************************************************)
CONSTANT
    Relay           \* the relays of the board

VARIABLES
    request,        \* queued ioadr/cmd or shifter/cmd: at most one request
    board,          \* relays that are on
    relays          \* ioMsg_.relays: what the driver has last read or written

ioVars == <<request, board, relays>>

Request == [mask : SUBSET Relay, bits : SUBSET Relay]

\* processOutput; a relay asked to be both on and off ends on
processOutput(on, off) == [mask |-> on \cup off, bits |-> on]

\* the queue keeps the newest message
Publish(r) == request' = {r}

\* Mutant of NewRelays: relays are only ever switched on.
NeverOff(r) == board \cup r.bits

NewRelays(r) == (board \ r.mask) \cup r.bits

\* relays_busy or an I/O error in query_relays: ioMsg_.relays is left alone
QueryFails == UNCHANGED <<board, relays>>

\* the board answers and there is nothing to set
QueryOnly == /\ request = {}
             /\ relays' = board
             /\ UNCHANGED board

\* the board answers, the write to it fails
SetFails == /\ request # {}
            /\ relays' = board
            /\ UNCHANGED board

SetRelays == \E r \in request :
                /\ board' = NewRelays(r)
                /\ relays' = NewRelays(r)

\* One turn of Main as far as the relays go.
GetSetRelays == /\ QueryFails \/ QueryOnly \/ SetFails \/ SetRelays
                /\ request' = {}

\* Shutdown and a new start: both set the relays to reset_relays, and neither
\* looks whether the write has succeeded.
Restart == /\ board' \in {{}, board}
           /\ relays' = {}
           /\ request' = {}

IOInit == request = {} /\ board = {} /\ relays = {}
=============================================================================
