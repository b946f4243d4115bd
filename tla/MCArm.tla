-------------------------------- MODULE MCArm --------------------------------
(***************************************************************************)
(* The arm's modules side by side, one of them at work in a behaviour:     *)
(* they share no state, so that one run explores each of them.             *)
(***************************************************************************)
EXTENDS ArmMotionLock, PanelAlign, ArmTeleop, KeyboardTeleop, PanelPrompt

VARIABLE part

armVars == <<lockVars, alignVars, teleopVars, keyVars, promptVars, part>>

Parts == {"lock", "align", "pad", "keys", "prompt"}

cHolderOf == [c \in Clients |-> IF c = "home" THEN "ground" ELSE "jetson"]

\* panel_align_node's two services: one process, one holder id.
cOneProcess == [c \in Clients |-> "jetson"]

\* Home asks for a longer lease (by default) than panel_align_node's services do.
cLease == [c \in Clients |-> IF c = "home" THEN 2 ELSE 1]

\* The buttons in groups that interfere: an operator uses any of them, a behaviour
\* of the model those of one group.
cOperators ==
    {<<"jaw", {"A", "level"}>>, <<"jaw", {"A", "align", "orient"}>>} \cup
    {"jaw", "drill_sampling", "astrobio"} \X {{"A", "B", "Y"}}

\* Motion keys, and the calls made meanwhile; m is p by another name, and so is f once
\* home has started Servo.  One keyboard is in use, or two with the least of keys.
cKeySets == {<<{"w"}, {"r"}>>, <<{"b", "v"}, {"r"}>>, <<{}, {"r", "p"}>>, <<{}, {"f"}>>}

MCInit ==
    /\ part \in Parts
    /\ LockInit /\ AlignInit /\ TeleopInit /\ KeyInit /\ PromptInit
    /\ part # "pad" => <<tool, duty>> = <<"astrobio", {"A", "B", "Y"}>>
    /\ opened = Keyboards => <<keys, calls>> = <<{"w"}, {"r"}>>
    /\ part # "keys" => opened = Keyboards
    /\ part # "prompt" => loop = "keyboard"

LockPart ==
    /\ part = "lock" /\ LockNext
    /\ UNCHANGED <<alignVars, teleopVars, keyVars, promptVars, part>>

AlignPart ==
    /\ part = "align" /\ AlignNext
    /\ UNCHANGED <<lockVars, teleopVars, keyVars, promptVars, part>>

TeleopPart ==
    /\ part = "pad" /\ TeleopNext
    /\ UNCHANGED <<lockVars, alignVars, keyVars, promptVars, part>>

KeyPart ==
    /\ part = "keys" /\ KeyNext
    /\ UNCHANGED <<lockVars, alignVars, teleopVars, promptVars, part>>

PromptPart ==
    /\ part = "prompt" /\ PromptNext
    /\ UNCHANGED <<lockVars, alignVars, teleopVars, keyVars, part>>

MCNext == LockPart \/ AlignPart \/ TeleopPart \/ KeyPart \/ PromptPart

\* The fairness of the part at work.
MCFairness ==
    /\ WF_lockVars(part = "lock" /\ Tick)
    /\ WF_teleopVars(part = "pad" /\ (JoyCommands \/ HaltGivesUp))
    /\ SF_teleopVars(part = "pad" /\ JoyTimesOut)
    /\ WF_keyVars(part = "keys" /\ TaskStep("home"))
    /\ WF_keyVars(part = "keys" /\ MainStep)

MCSpec == MCInit /\ [][MCNext]_armVars /\ MCFairness

ArmTypeOK == LockTypeOK /\ AlignTypeOK /\ TeleopTypeOK /\ KeyTypeOK /\ PromptTypeOK

===============================================================================
