----------------------------- MODULE PanelPrompt -----------------------------
(***************************************************************************)
(* arm_teleop: the one-shot prompt both input loops raise when the panel   *)
(* comes into view.  The keyboard polls on a timer; the gamepad polls with *)
(* each Joy message that passes its gate.  Time is counted in polls; the   *)
(* panel counts as lost after Confirm of them without a pose.              *)
(***************************************************************************)
EXTENDS Naturals

CONSTANTS
    Confirm,      \* _PANEL_LOST_CONFIRM_SEC
    Never         \* None

ASSUME PromptAssumption == Confirm \in Nat \ {0} /\ Never \notin Nat

VARIABLES
    loop,            \* "keyboard" or "gamepad", frozen
    inView,          \* is_panel_visible()
    closed,          \* the gamepad's gate is closed
    wasVisible,      \* _panel_was_visible
    lostFor,         \* since _panel_lost_since, or Never
    prompting,       \* _panel_prompt_pending
    unseen,          \* history: for how long there was no pose
    away,            \* history: it was out of view for Confirm since last sighted
    skipped          \* history: it was seen, unnoticed, while a loss was counted

promptVars == <<loop, inView, closed, wasVisible, lostFor, prompting, unseen, away, skipped>>

PromptInit ==
    /\ loop \in {"keyboard", "gamepad"}
    /\ inView = FALSE /\ closed = (loop = "gamepad")
    /\ wasVisible = FALSE /\ lostFor = Never /\ prompting = FALSE
    /\ unseen = Confirm /\ away = TRUE /\ skipped = FALSE

Capped(n) == IF n > Confirm THEN Confirm ELSE n

\* Between two polls the camera may find or lose the panel; a pose counts for
\* longer than a poll period ...
PanelComesOrGoes ==
    /\ inView => unseen = 0
    /\ inView' = ~inView
    /\ UNCHANGED <<loop, closed, wasVisible, lostFor, prompting, unseen, away, skipped>>

\* ... and the gamepad's gate may close or open.
GateMoves ==
    /\ loop = "gamepad" /\ closed' = ~closed
    /\ UNCHANGED <<loop, inView, wasVisible, lostFor, prompting, unseen, away, skipped>>

\* The time since _panel_lost_since, which the first poll without a pose sets.
Elapsed == IF lostFor = Never THEN Never ELSE Capped(lostFor + 1)

LostNow ==
    CASE inView -> Never
      [] ~inView /\ wasVisible /\ lostFor = Never -> 0
      [] OTHER -> Elapsed

\* A plausible bug: a lost detection is believed at once.
VisibleNow == inView

Visible == inView \/ (wasVisible /\ LostNow < Confirm)
Sighted == Visible /\ ~wasVisible

\* A poll period passes: _check_panel_visibility, and the same lines of _on_joy.
Poll ==
    /\ unseen' = IF inView THEN 0 ELSE Capped(unseen + 1)
    /\ IF closed
       THEN /\ lostFor' = Elapsed
            /\ away' = (away \/ unseen' = Confirm)
            /\ skipped' = (skipped \/ (inView /\ lostFor # Never))
            /\ UNCHANGED <<wasVisible, prompting>>
       ELSE /\ lostFor' = LostNow /\ wasVisible' = Visible
            /\ prompting' = (prompting \/ Sighted)
            /\ away' = (~Sighted /\ (away \/ unseen' = Confirm))
            /\ skipped' = (skipped /\ ~Sighted)
    /\ UNCHANGED <<loop, inView, closed>>

\* A motion key or stick, or the align button, dismisses the prompt.
Dismissed ==
    /\ ~closed /\ prompting /\ prompting' = FALSE
    /\ UNCHANGED <<loop, inView, closed, wasVisible, lostFor, unseen, away, skipped>>

PromptNext == PanelComesOrGoes \/ GateMoves \/ Poll \/ Dismissed

PromptSpec == PromptInit /\ [][PromptNext]_promptVars

-------------------------------------------------------------------------------

PromptTypeOK ==
    /\ loop \in {"keyboard", "gamepad"}
    /\ {inView, closed, wasVisible, prompting, away, skipped} \subseteq BOOLEAN
    /\ lostFor \in 0..Confirm \cup {Never} /\ unseen \in 0..Confirm

\* A flicker of the detection does not prompt again: the panel was out of view for
\* the confirm period since it was last sighted.  Not so on the gamepad when it was
\* seen while the gate was closed, where nothing polls and the loss goes on counting.
OnePromptPerSighting ==
    [][~wasVisible /\ wasVisible' => away \/ skipped]_promptVars

===============================================================================
