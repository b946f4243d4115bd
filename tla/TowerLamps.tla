------------------------------ MODULE TowerLamps ------------------------------
(***************************************************************************)
(* The two nodes that light the tower: gs_link_lamp_node shows in blue     *)
(* whether the ground station is there, drive_source_lamp_node in red and  *)
(* green who drives.  Each ticks, compares the colour it wants with the    *)
(* one it last had confirmed, and has at most one request out to the       *)
(* lights node.  A behaviour is one of the two nodes.                      *)
(***************************************************************************)
EXTENDS Naturals, FiniteSets

CONSTANTS
    Sources,       \* the inputs of twist_mux
    Priority,      \* of each of them, as in twist_mux.yaml
    Autonomous,    \* those that drive without an operator
    LinkStates,    \* what /gs/link/state says
    Down,          \* the state that says there is no link
    Unset          \* _lamp_on / _commanded before the first success; no request

ASSUME SourcesAssumption ==
    /\ Priority \in [Sources -> Nat] /\ Autonomous \subseteq Sources
    /\ \A s, t \in Sources : Priority[s] = Priority[t] => s = t
    /\ Down \in LinkStates

VARIABLES
    lampNode,      \* which of the two nodes
    fresh,         \* the sources heard of lately; of the link, its last state
    confirmed,     \* _lamp_on, _commanded
    asked,         \* the request that is out
    server,        \* the lights node: up, or gone
    colour,        \* what the tower shows
    wedged,        \* the lights node that had the request is gone: _call stays pending
    behind         \* history: the tower changed, and no answer told this node

lampVars == <<lampNode, fresh, confirmed, asked, server, colour, wedged, behind>>

Colours == IF lampNode = "link" THEN {"blue", "dark"} ELSE {"red", "green", "dark"}

LampInit ==
    /\ lampNode \in {"link", "source"}
    /\ fresh = {} /\ confirmed = Unset /\ asked = Unset /\ server = "gone"
    /\ colour \in Colours /\ wedged = FALSE /\ behind = FALSE

-------------------------------------------------------------------------------

\* A plausible bug: the lowest number wins, as in other multiplexers.
Lowest == CHOOSE s \in fresh : \A t \in fresh : Priority[s] <= Priority[t]

\* DriveSourceWatchdog.winner: the source twist_mux lets through
Winner == CHOOSE s \in fresh : \A t \in fresh : Priority[t] <= Priority[s]

Wanted ==
    IF fresh = {} THEN "dark"
    ELSE IF lampNode = "link" THEN IF fresh = {Down} THEN "dark" ELSE "blue"
    ELSE IF Winner \in Autonomous THEN "red" ELSE "green"

\* on_message
Hear(s) ==
    /\ fresh' = IF lampNode = "link" THEN {s} ELSE fresh \cup {s}
    /\ UNCHANGED <<lampNode, confirmed, asked, server, colour, wedged, behind>>

GrowStale(s) ==
    /\ s \in fresh /\ fresh' = fresh \ {s}
    /\ UNCHANGED <<lampNode, confirmed, asked, server, colour, wedged, behind>>

\* _tick: no request while one is out, or while the service is not there.
LampTick ==
    /\ Wanted # confirmed /\ asked = Unset /\ server = "up"
    /\ asked' = Wanted
    /\ UNCHANGED <<lampNode, fresh, confirmed, server, colour, wedged, behind>>

\* A plausible bug: what is confirmed is what is wanted by now.
Adopted(request) == Wanted

ConfirmedNow(request) == request

\* _on_set_done with success: the lights node had its acknowledgement.
Granted ==
    /\ asked # Unset /\ server = "up" /\ ~wedged
    /\ colour' = asked /\ confirmed' = ConfirmedNow(asked)
    /\ asked' = Unset /\ behind' = FALSE
    /\ UNCHANGED <<lampNode, fresh, server, wedged>>

\* _on_set_done with a refusal: the board refused, or its acknowledgement was lost
\* and the colour changed nonetheless.
Refused ==
    /\ asked # Unset /\ server = "up" /\ ~wedged
    /\ asked' = Unset
    /\ \/ UNCHANGED <<colour, behind>>
       \/ colour' = asked /\ behind' = TRUE
    /\ UNCHANGED <<lampNode, fresh, confirmed, server, wedged>>

\* Another client changes the head, or a lights node that exits darkens it.
ChangedByOthers ==
    /\ server = "up" /\ asked = Unset
    /\ colour' \in Colours \ {colour} /\ behind' = TRUE
    /\ UNCHANGED <<lampNode, fresh, confirmed, asked, server, wedged>>

\* The lights node comes up or goes; a request that is out then is never answered.
ServerComes ==
    /\ server = "gone" /\ server' = "up"
    /\ UNCHANGED <<lampNode, fresh, confirmed, asked, colour, wedged, behind>>

ServerGoes ==
    /\ server = "up" /\ server' = "gone"
    /\ colour' \in {colour, "dark"} /\ behind' = (behind \/ colour' # colour)
    /\ wedged' = (asked # Unset)
    /\ UNCHANGED <<lampNode, fresh, confirmed, asked>>

Inputs == IF lampNode = "link" THEN LinkStates ELSE Sources

LampNext ==
    \/ \E s \in Inputs : Hear(s) \/ GrowStale(s)
    \/ LampTick \/ Granted \/ Refused \/ ChangedByOthers \/ ServerComes \/ ServerGoes

\* The timer ticks, and the lights node answers what it was asked.
LampSpec ==
    LampInit /\ [][LampNext]_lampVars
    /\ WF_lampVars(LampTick) /\ WF_lampVars(Granted \/ Refused)

-------------------------------------------------------------------------------

LampTypeOK ==
    /\ fresh \subseteq Inputs /\ (lampNode = "link" => Cardinality(fresh) <= 1)
    /\ {confirmed, asked} \subseteq Colours \cup {Unset} /\ colour \in Colours
    /\ server \in {"up", "gone"} /\ {behind, wedged} \subseteq BOOLEAN

\* Who drives and whether the console is there settles, the lights node stays and stops
\* refusing: then the tower shows it, if no colour changed behind the node's back
\* and no request went down with an earlier lights node.
LampFollows ==
    \/ <>[](colour = (IF fresh = {} THEN "dark" ELSE
              IF lampNode = "link" THEN IF Down \in fresh THEN "dark" ELSE "blue"
              ELSE IF \E s \in Autonomous \cap fresh : \A t \in fresh \ Autonomous :
                          Priority[t] < Priority[s] THEN "red" ELSE "green"))
    \/ []<>behind
    \/ []<>(server = "gone")
    \/ <>wedged
    \/ []<><<\E s \in Inputs : Hear(s) \/ GrowStale(s)>>_fresh
    \/ []<><<Refused>>_asked

===============================================================================
