----------------------------- MODULE StopButton -----------------------------
(***************************************************************************)
(* The stop button of the single-file tab.  _gen_real creates the run's     *)
(* CancelToken and passes each frame of the run on as a tuple of output     *)
(* values, one of them for the gr.State that the button's handler reads:    *)
(* the token in the first frame, None in every later one.  Gradio stores    *)
(* the value of each output in its component; None is a value like any      *)
(* other (the code itself clears the download paths with it).               *)
(***************************************************************************)
EXTENDS CommentRun

VARIABLES
    slot,     \* state_single_cancel: "token" or "None"
    pressed   \* the button was pressed during this run

\* The button is interactive from the first frame to the last.
Interactive == stage \notin {"idle", "ended"} /\ frames > 0

\* What one frame stores in the slot, given how many came before it.
SlotAfter(frame) == IF frame = 1 THEN "token" ELSE "None"

StopInit ==
    /\ Init
    /\ slot = "None"
    /\ pressed = FALSE

\* A step of the run, and the frame that it shows; the last frame of a run,
\* and the one of a run that is refused, put None into the slot.
ShowRun ==
    /\ Run
    /\ slot' = IF stage' \in {"idle", "ended"} THEN "None"
               ELSE IF frames' # frames THEN SlotAfter(frames') ELSE slot
    /\ pressed' = (pressed /\ stage' # "idle")

\* _cancel_single.
PressStop ==
    /\ Interactive
    /\ pressed' = TRUE
    /\ token' = (token \/ slot = "token")
    /\ UNCHANGED <<stage, closed, frames, todo, source, pool, document, files,
                   outcome, slot>>

StopNext == ShowRun \/ PressStop

StopSpec == StopInit /\ [][StopNext]_<<vars, slot, pressed>>
-----------------------------------------------------------------------------
\* A press of the button reaches the run that is on the screen: the slot
\* keeps the newest token while later frames yield None.
\* (the comment at ui.py:548)
StopIsHeard == pressed => token
=============================================================================
