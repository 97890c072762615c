-------------------------------- MODULE Lamps --------------------------------
(***************************************************************************)
(* The lamps that tell bystanders what the robot is about to do: the       *)
(* navigator wants them on or off (module Estop, and the turn signals of   *)
(* the road controller), the driver of the IOADR8x board switches them     *)
(* (module IOadr), and the script relays.py may use the same queue for the *)
(* other relays of the board.                                              *)
(***************************************************************************)
EXTENDS Estop

CONSTANT Turn      \* TURN_LEFT and TURN_RIGHT

Lamp == Turn \cup {"FLASHER", "ALARM"}
Laser == "LASER_FRONT"

VARIABLES
    signals,        \* navdata: turn signals wanted
    believed,       \* signal_on_left_, signal_on_right_, flasher_on_, alarm_on_
    script,         \* relays.py: the relays it has seen last, while it runs
    request, board, relays

IO == INSTANCE IOadr WITH Relay <- Lamp \cup {Laser}

lampVars == <<nav, signals, believed, script, request, board, relays>>

-----------------------------------------------------------------------------
(* The navigator. *)

Wanted(s, f, a) == s \cup (IF f THEN {"FLASHER"} ELSE {}) \cup (IF a THEN {"ALARM"} ELSE {})
wish == Wanted(signals, flasher, alarm)

\* Mutant of SetRelays: lamps to be switched off are not named in the message.
SetRelaysOn(w) ==
    request' = IF believed # w THEN {IO!processOutput(w, {})} ELSE request

\* One message for all four lamps, whenever what is believed differs from the wish.
SetRelays(w) ==
    request' = IF believed # w THEN {IO!processOutput(w, Lamp \ w)} ELSE request

\* processRelays tests (relays && BIT): any relay that is on counts for each lamp.
Seen(r) == IF r # {} THEN Lamp ELSE {}

\* The road controller chooses the turn signals when it runs.
NavCycle ==
    /\ \E b \in Behaviors : Cycle(b)
    /\ \/ UNCHANGED signals
       \/ estop' = "Run" /\ signals' \in {{}} \cup {{t} : t \in Turn}
    /\ SetRelays(Wanted(signals', flasher', alarm'))
    /\ UNCHANGED <<believed, script, board, relays>>

RoadMap == ProcessRoadMap /\ UNCHANGED <<signals, believed, script, request, board, relays>>

-----------------------------------------------------------------------------
(* The board and the script. *)

\* The driver's cycle; its message reaches the navigator and the script, which
\* is finished when it sees the relays change.
PollDevice ==
    /\ IO!GetSetRelays
    /\ believed' = Seen(relays')
    /\ script' = script \cap {relays'}
    /\ UNCHANGED <<nav, signals>>

\* relays.py repeats its command every half second until then.
Script(on) ==
    /\ (Laser \in relays) # on
    /\ script' = {relays}
    /\ request' = {IF on THEN IO!processOutput({Laser}, {}) ELSE IO!processOutput({}, {Laser})}
    /\ UNCHANGED <<nav, signals, believed, board, relays>>

LampsInit == /\ NavInit /\ IO!IOInit
             /\ signals = {} /\ believed = {} /\ script = {}

LampsNext == NavCycle \/ RoadMap \/ PollDevice \/ \E on \in BOOLEAN : Script(on)

LampsSpec == LampsInit /\ [][LampsNext]_lampVars

\* The navigator asks at 20 Hz and the board is polled at 10 Hz: some time it
\* takes a request of the navigator.
LampsFairness ==
    /\ WF_lampVars(NavCycle)
    /\ SF_lampVars(PollDevice /\ IO!SetRelays /\ \E r \in request : r.mask = Lamp)

LampsFairSpec == LampsSpec /\ LampsFairness

\* Whatever lamps stay wanted are the ones that are on in the end.
LampsFollow == \A w \in SUBSET Lamp : <>[](wish = w) => <>[](board \cap Lamp = w)
=============================================================================
